---- MODULE Spec2Model ----
(***************************************************************************)
(* Model of the receipt-scanner backend: the worker-pool admission gate of *)
(* the scan/processing services and the pipeline that parses the model's   *)
(* completion text into an Invoice.                                        *)
(***************************************************************************)
EXTENDS Integers, Sequences, FiniteSets, TLC

\* ------------------------------------------------------------------------
\* Bounds of the model
\* ------------------------------------------------------------------------
NCalls == 2
MaxWorkersHi == 2

Calls == 1..NCalls
MaxWorkersInputs == 0..MaxWorkersHi

Services == {"ReceiptService", "AIProcessorService", "OpenRouterService"}

VARIABLES
    svc,          \* which service was constructed
    maxWorkers,   \* the maxWorkers argument handed to the constructor
    poolCap,      \* cap(workerPool) / cap(workerQueue)
    workerPool,   \* len(workerPool): number of slots currently held
    sendq,        \* calls parked in the select, waiting to send on the pool
    pc,           \* position of every call
    ctxDone,      \* ctx.Done() is closed for the call's context
    result,       \* what the call returned
    extractCalls, \* number of ExtractInvoiceData invocations per call
    acquires,     \* number of slots the call acquired
    releases,     \* number of slots the call released
    cancelAt,     \* where the call was when its context was cancelled
    hist,         \* states the call went through, in order
    respKind,   \* the response body: undecodable, without choices, or content
    base,       \* the text T the completion was made of
    wrap,       \* how T was wrapped
    content,    \* response.Choices[0].Message.Content
    ppc,        \* the stage the call is at
    tried,      \* the stages that ran, in order, with their outcome
    recovered,  \* the invoice of the regex stage after fields and items
    parsed,     \* what parseOpenRouterResponse returned
    cpc,        \* whether the line item was normalized
    rawItem,    \* the line item as extracted
    lineItem,   \* the line item as assembled
    spc,         \* where the scan request is
    hasImage,    \* the form carries a receiptImage file
    config,      \* the Config the client was built from
    poolFull,    \* the worker pool has no room when the request arrives
    scanCtx,     \* the request's context is done
    slotHeld,    \* the request holds a slot of the worker pool
    admitted,    \* the request got a slot
    uploads,     \* uploads sent to the storage collaborator
    requests,    \* requests sent to the model API
    uploadReply, \* what the storage collaborator answered
    modelReply,  \* what the model API answered
    storeReply,  \* what the repository answered
    respBody,    \* the body of the model API's 200 response
    invoiceData, \* the Invoice ExtractInvoiceData returned
    receipt,     \* the Receipt ScanReceipt returned
    scanErr,     \* the error ScanReceipt returned
    httpStatus,  \* the status of the HTTP response
    imageURL,    \* the URL UploadImageToSupabase returned
    sentURL,     \* the image_url of the request sent to the model API
    steps,       \* the steps of ExtractInvoiceData that ran, in order
    receiptCache, \* r.receiptCache: the stored receipts by ID
    deleted,      \* IDs deleted with 204 and not created since
    answer,       \* the HTTP response of the last receipts request
    workerQueue,  \* len(s.workerQueue) of the AI processor
    queueCap,     \* cap(s.workerQueue)
    queueClosed,  \* s.workerQueue was closed
    repository,   \* s.repository is set
    batchCtx,     \* the context of the batch is done
    batch,        \* where ProcessInvoiceBatch is
    wg,           \* the counter of the batch's WaitGroup
    call,         \* the ProcessInvoice call of every request
    responses,    \* the responses slice of the batch
    batchResult,  \* what ProcessInvoiceBatch returned
    aiPanic,      \* the panic that ended the process
    processingQueue, \* the tasks buffered in s.processingQueue
    ocrClosed,       \* s.processingQueue was closed
    ocrTasks,        \* every ProcessInvoice call and its task
    ocrWorkers,      \* every worker goroutine
    ocrShutdown      \* where Shutdown is

poolVars == <<svc, maxWorkers, poolCap, workerPool, sendq, pc, ctxDone,
              result, extractCalls, acquires, releases, cancelAt, hist>>

parseVars == <<respKind, base, wrap, content, ppc, tried, recovered, parsed>>

classifyVars == <<cpc, rawItem, lineItem>>

scanVars == <<spc, storeReply,
              hasImage, config, poolFull, scanCtx, slotHeld, admitted,
              uploads, requests, uploadReply, modelReply, respBody,
              invoiceData, receipt, scanErr, httpStatus, imageURL, sentURL,
              steps>>

repoVars == <<receiptCache, deleted, answer>>

aiVars == <<workerQueue, queueCap, queueClosed, repository, batchCtx, batch,
            wg, call, responses, batchResult, aiPanic>>

ocrVars == <<processingQueue, ocrClosed, ocrTasks, ocrWorkers, ocrShutdown>>

vars == <<poolVars, parseVars, classifyVars, scanVars, repoVars, aiVars,
          ocrVars>>

\* ------------------------------------------------------------------------
\* Completion text: a sequence of lexical tokens
\* ------------------------------------------------------------------------
\* punctuation of JSON: { } [ ] : ,
P(c) == [k |-> "p", v |-> c]
\* a double-quoted string without escapes, v is the text between the quotes
S(s) == [k |-> "str", v |-> s]
\* a JSON number, v is its value in hundredths
N(n) == [k |-> "num", v |-> n]
\* a bare word: prose, the literals null/true/false, the language tag json
W(w) == [k |-> "word", v |-> w]
\* a run of whitespace
WS == [k |-> "ws", v |-> " "]
\* the Markdown code fence, three backticks
Fence == [k |-> "fence", v |-> "fence"]

IsP(tok, c) == tok.k = "p" /\ tok.v = c
IsNull(tok) == tok.k = "word" /\ tok.v = "null"
IsLiteral(tok) == tok.k = "word" /\ tok.v \in {"null", "true", "false"}

\* ------------------------------------------------------------------------
\* encoding/json: json.Unmarshal(content, &invoiceDTO)
\* ------------------------------------------------------------------------
\* whitespace between JSON tokens is insignificant
Significant(t) == SelectSeq(t, LAMBDA x : x.k # "ws")

RECURSIVE SkipValue(_, _)
RECURSIVE SkipMembers(_, _)
RECURSIVE SkipElems(_, _)

\* index just after the JSON value starting at t[i]; 0 when it is malformed
SkipValue(t, i) ==
    IF i > Len(t) THEN 0
    ELSE IF t[i].k \in {"str", "num"} \/ IsLiteral(t[i]) THEN i + 1
    ELSE IF IsP(t[i], "{")
         THEN IF i + 1 <= Len(t) /\ IsP(t[i + 1], "}")
                 THEN i + 2 ELSE SkipMembers(t, i + 1)
    ELSE IF IsP(t[i], "[")
         THEN IF i + 1 <= Len(t) /\ IsP(t[i + 1], "]")
                 THEN i + 2 ELSE SkipElems(t, i + 1)
    ELSE 0

\* t[i] is expected to be the key of an object member
SkipMembers(t, i) ==
    IF i + 1 > Len(t) THEN 0
    ELSE IF t[i].k # "str" \/ ~IsP(t[i + 1], ":") THEN 0
    ELSE LET j == SkipValue(t, i + 2)
         IN IF j = 0 \/ j > Len(t) THEN 0
            ELSE IF IsP(t[j], "}") THEN j + 1
            ELSE IF IsP(t[j], ",") THEN SkipMembers(t, j + 1)
            ELSE 0

\* t[i] is expected to be the first token of an array element
SkipElems(t, i) ==
    LET j == SkipValue(t, i)
    IN IF j = 0 \/ j > Len(t) THEN 0
       ELSE IF IsP(t[j], "]") THEN j + 1
       ELSE IF IsP(t[j], ",") THEN SkipElems(t, j + 1)
       ELSE 0

\* checkValid: the text is exactly one JSON value
ValidJSON(t) == Len(t) > 0 /\ SkipValue(t, 1) = Len(t) + 1

RECURSIVE Members(_, _)
\* the members of a valid object, i is the index after its opening brace
Members(t, i) ==
    IF IsP(t[i], "}") THEN <<>>
    ELSE LET j == SkipValue(t, i + 2)
         IN <<[key |-> t[i].v, at |-> i + 2]>>
               \o (IF IsP(t[j], ",") THEN Members(t, j + 1) ELSE <<>>)

RECURSIVE Elems(_, _)
\* the start indexes of the elements of a valid array
Elems(t, i) ==
    IF IsP(t[i], "]") THEN <<>>
    ELSE LET j == SkipValue(t, i)
         IN <<i>> \o (IF IsP(t[j], ",") THEN Elems(t, j + 1) ELSE <<>>)

\* struct fields are matched by name, ignoring case
Fold(key) ==
    CASE key = "Vendor_Name" -> "vendor_name"
      [] OTHER -> key

ItemStringFields == [description |-> "Description"]
ItemNumberFields ==
    [quantity |-> "Quantity", unit_price |-> "UnitPrice", total |-> "Total"]

ZeroItem ==
    [Description |-> "", Details |-> <<>>, Quantity |-> 0, UnitPrice |-> 0,
     Total |-> 0]

RECURSIVE DecodeStrings(_, _, _)
\* Details []string from the elements of an array
DecodeStrings(t, es, acc) ==
    IF es = <<>> THEN acc
    ELSE LET tok == t[Head(es)]
             nxt == IF tok.k = "str"
                       THEN [val |-> Append(acc.val, tok.v), err |-> acc.err]
                    ELSE IF IsNull(tok)
                       THEN [val |-> Append(acc.val, ""), err |-> acc.err]
                    ELSE [val |-> Append(acc.val, ""), err |-> TRUE]
         IN DecodeStrings(t, Tail(es), nxt)

ItemMember(acc, t, m) ==
    LET key == Fold(m.key)
        tok == t[m.at]
    IN IF IsNull(tok) THEN acc
       ELSE IF key \in DOMAIN ItemStringFields
          THEN IF tok.k = "str"
                  THEN [acc EXCEPT !.val[ItemStringFields[key]] = tok.v]
                  ELSE [acc EXCEPT !.err = TRUE]
       ELSE IF key \in DOMAIN ItemNumberFields
          THEN IF tok.k = "num"
                  THEN [acc EXCEPT !.val[ItemNumberFields[key]] = tok.v]
                  ELSE [acc EXCEPT !.err = TRUE]
       ELSE IF key = "details"
          THEN IF IsP(tok, "[")
                  THEN LET d == DecodeStrings(t, Elems(t, m.at + 1),
                                              [val |-> <<>>, err |-> FALSE])
                       IN [val |-> [acc.val EXCEPT !.Details = d.val],
                           err |-> acc.err \/ d.err]
                  ELSE [acc EXCEPT !.err = TRUE]
       ELSE acc

RECURSIVE ItemMembers(_, _, _)
ItemMembers(acc, t, ms) ==
    IF ms = <<>> THEN acc
    ELSE ItemMembers(ItemMember(acc, t, Head(ms)), t, Tail(ms))

RECURSIVE DecodeItems(_, _, _)
\* Items []struct{...} from the elements of an array
DecodeItems(t, es, acc) ==
    IF es = <<>> THEN acc
    ELSE LET tok == t[Head(es)]
             it == IF IsP(tok, "{")
                      THEN ItemMembers([val |-> ZeroItem, err |-> FALSE], t,
                                       Members(t, Head(es) + 1))
                   ELSE IF IsNull(tok)
                      THEN [val |-> ZeroItem, err |-> FALSE]
                   ELSE [val |-> ZeroItem, err |-> TRUE]
         IN DecodeItems(t, Tail(es),
                        [val |-> Append(acc.val, it.val),
                         err |-> acc.err \/ it.err])

StringFields ==
    [vendor_name |-> "VendorName", invoice_number |-> "InvoiceNumber",
     invoice_date |-> "InvoiceDate", due_date |-> "DueDate"]
NumberFields ==
    [subtotal |-> "Subtotal", tax_rate_percent |-> "TaxRatePercent",
     tax_amount |-> "TaxAmount", discount |-> "Discount",
     total_due |-> "TotalDue"]

\* var invoiceDTO struct{...}
ZeroDTO ==
    [VendorName |-> "", InvoiceNumber |-> "", InvoiceDate |-> "",
     DueDate |-> "", Subtotal |-> 0, TaxRatePercent |-> 0, TaxAmount |-> 0,
     Discount |-> 0, TotalDue |-> 0, Items |-> <<>>]

DTOMember(acc, t, m) ==
    LET key == Fold(m.key)
        tok == t[m.at]
    IN IF IsNull(tok) THEN acc
       ELSE IF key \in DOMAIN StringFields
          THEN IF tok.k = "str"
                  THEN [acc EXCEPT !.val[StringFields[key]] = tok.v]
                  ELSE [acc EXCEPT !.err = TRUE]
       ELSE IF key \in DOMAIN NumberFields
          THEN IF tok.k = "num"
                  THEN [acc EXCEPT !.val[NumberFields[key]] = tok.v]
                  ELSE [acc EXCEPT !.err = TRUE]
       ELSE IF key = "items"
          THEN IF IsP(tok, "[")
                  THEN LET d == DecodeItems(t, Elems(t, m.at + 1),
                                            [val |-> <<>>, err |-> FALSE])
                       IN [val |-> [acc.val EXCEPT !.Items = d.val],
                           err |-> acc.err \/ d.err]
                  ELSE [acc EXCEPT !.err = TRUE]
       ELSE acc

RECURSIVE DTOMembers(_, _, _)
DTOMembers(acc, t, ms) ==
    IF ms = <<>> THEN acc
    ELSE DTOMembers(DTOMember(acc, t, Head(ms)), t, Tail(ms))

\* json.Unmarshal([]byte(text), &invoiceDTO): err is set on a syntax error
\* and on a value of the wrong type, val is the decoded struct
Unmarshal(text) ==
    LET t == Significant(text)
    IN IF ~ValidJSON(t) THEN [val |-> ZeroDTO, err |-> TRUE]
       ELSE IF IsP(t[1], "{")
          THEN DTOMembers([val |-> ZeroDTO, err |-> FALSE], t, Members(t, 2))
       ELSE IF IsNull(t[1]) THEN [val |-> ZeroDTO, err |-> FALSE]
       ELSE [val |-> ZeroDTO, err |-> TRUE]

\* ------------------------------------------------------------------------
\* domain.Invoice
\* ------------------------------------------------------------------------
ZeroDate == <<1, 1, 1>>

\* time.Parse("2006-01-02", s): the date of a YYYY-MM-DD text, err otherwise
TimeParse(s) ==
    CASE s = "2024-01-15" -> [val |-> <<2024, 1, 15>>, err |-> FALSE]
      [] s = "2024-02-14" -> [val |-> <<2024, 2, 14>>, err |-> FALSE]
      [] OTHER -> [val |-> ZeroDate, err |-> TRUE]

\* domain.NewInvoice()
NewInvoice ==
    [VendorName |-> "", InvoiceNumber |-> "", InvoiceDate |-> ZeroDate,
     DueDate |-> ZeroDate, Items |-> <<>>, Subtotal |-> 0,
     TaxRatePercent |-> 0, TaxAmount |-> 0, Discount |-> 0, TotalDue |-> 0]

\* the date field of the DTO: parsed when it is non-empty and well formed
DateOrZero(s) ==
    IF s # "" /\ ~TimeParse(s).err THEN TimeParse(s).val ELSE ZeroDate

\* domain.LineItem{Description: ..., Details: ..., Quantity: ...,
\* UnitPrice: ..., Total: ...}: Category is not set and stays ""
LineItem(item) ==
    [Description |-> item.Description,
     Details |-> item.Details,
     Quantity |-> item.Quantity,
     UnitPrice |-> item.UnitPrice,
     Total |-> item.Total,
     Category |-> ""]

\* the Invoice built from a decoded DTO; every item of the DTO is added
FromDTO(dto) ==
    [VendorName |-> dto.VendorName,
     InvoiceNumber |-> dto.InvoiceNumber,
     InvoiceDate |-> DateOrZero(dto.InvoiceDate),
     DueDate |-> DateOrZero(dto.DueDate),
     Items |-> [i \in 1..Len(dto.Items) |-> LineItem(dto.Items[i])],
     Subtotal |-> dto.Subtotal,
     TaxRatePercent |-> dto.TaxRatePercent,
     TaxAmount |-> dto.TaxAmount,
     Discount |-> dto.Discount,
     TotalDue |-> dto.TotalDue]

\* ------------------------------------------------------------------------
\* Client.parseOpenRouterResponse: the strict decode of the content
\* ------------------------------------------------------------------------
Failed == [ok |-> FALSE, invoice |-> NewInvoice]

\* err == nil: the Invoice is built from the DTO and returned
StrictDecode(text) ==
    LET r == Unmarshal(text)
    IN IF ~r.err THEN [ok |-> TRUE, invoice |-> FromDTO(r.val)] ELSE Failed

\* ------------------------------------------------------------------------
\* Client.extractJSONWithRegex: fences, embedded JSON object
\* ------------------------------------------------------------------------
\* three backticks inside a string are written ~~~ in this model; the text
\* of a string after the fence markers in it were removed
Unfenced(str) ==
    CASE str = "Ac~~~me" -> "Acme"
      [] OTHER -> str

\* the tokens of t at the indexes that keep(i) holds of, in order
KeepTokens(t, keep(_)) ==
    LET kept == SelectSeq([i \in 1..Len(t) |-> i], keep)
    IN [k \in 1..Len(kept) |-> t[kept[k]]]

\* t[i] is white space of the \s* after the match that ends at t[end]
SpaceAfter(t, end, i) ==
    end < i /\ \A k \in (end + 1)..i : t[k].k = "ws"

\* a match of "```json" starts at t[i]
JsonFenceAt(t, i) ==
    /\ i >= 1
    /\ i + 1 <= Len(t)
    /\ t[i].k = "fence"
    /\ t[i + 1].k = "word"
    /\ t[i + 1].v = "json"

\* regexp "```json\s*" replaced by ""
StripJsonFences(t) ==
    LET matched(i) ==
            \/ JsonFenceAt(t, i)
            \/ JsonFenceAt(t, i - 1)
            \/ \E j \in 1..i : JsonFenceAt(t, j) /\ SpaceAfter(t, j + 1, i)
    IN KeepTokens(t, LAMBDA i : ~matched(i))

\* regexp "```\s*" replaced by ""
StripPlainFences(t) ==
    LET matched(i) ==
            \/ t[i].k = "fence"
            \/ \E j \in 1..i : t[j].k = "fence" /\ SpaceAfter(t, j, i)
        kept == KeepTokens(t, LAMBDA i : ~matched(i))
    IN [k \in 1..Len(kept) |->
          IF kept[k].k = "str" THEN S(Unfenced(kept[k].v)) ELSE kept[k]]

\* variant: only the ```json markers are removed
StripFences_JsonOnly(t) == StripJsonFences(t)

StripFences(t) == StripPlainFences(StripJsonFences(t))

Positions(t, c) == {i \in 1..Len(t) : IsP(t[i], c)}
Min(set) == CHOOSE x \in set : \A y \in set : x <= y
Max(set) == CHOOSE x \in set : \A y \in set : x >= y

\* variant: a lazy pattern, from the first { to the first } after it
JSONMatch_Lazy(t) ==
    LET opens == {i \in 1..Len(t) : IsP(t[i], "{")}
        closes == {i \in 1..Len(t) : IsP(t[i], "}")}
    IN IF opens # {} /\ \E j \in closes : j > Min(opens)
          THEN SubSeq(t, Min(opens), Min({j \in closes : j > Min(opens)}))
          ELSE <<>>

\* regexp `\{[\s\S]*\}`, FindString: from the first { to the last } after it
JSONMatch(t) ==
    LET opens == Positions(t, "{")
        closes == Positions(t, "}")
    IN IF opens # {} /\ \E j \in closes : j > Min(opens)
          THEN SubSeq(t, Min(opens), Max(closes))
          ELSE <<>>

\* jsonMatch != "" and json.Unmarshal of it succeeds
EmbeddedDecode(text) ==
    LET jsonMatch == JSONMatch(text)
    IN IF jsonMatch # <<>> THEN StrictDecode(jsonMatch) ELSE Failed

\* ------------------------------------------------------------------------
\* Client.extractJSONWithRegex: field-level recovery
\* ------------------------------------------------------------------------
RECURSIVE SkipSpace(_, _)
\* \s*: the index of the first token at or after i that is not whitespace
SkipSpace(t, i) ==
    IF i <= Len(t) /\ t[i].k = "ws" THEN SkipSpace(t, i + 1) ELSE i

\* the index of the token after `"key"\s*:\s*` when that matches at i, else 0
AfterKey(t, i, key) ==
    IF t[i].k = "str" /\ t[i].v = key
       THEN LET j == SkipSpace(t, i + 1)
            IN IF j <= Len(t) /\ IsP(t[j], ":")
                  THEN LET n == SkipSpace(t, j + 1)
                       IN IF n <= Len(t) THEN n ELSE 0
                  ELSE 0
       ELSE 0

\* `"key"\s*:\s*"([^"]+)"` matches at i: a non-empty string follows
StringAt(t, i, key) ==
    LET n == AfterKey(t, i, key)
    IN n # 0 /\ t[n].k = "str" /\ t[n].v # ""

\* `"key"\s*:\s*(\d+\.?\d*)` matches at i: digits follow
NumberAt(t, i, key) ==
    LET n == AfterKey(t, i, key)
    IN n # 0 /\ t[n].k = "num" /\ t[n].v >= 0

\* FindStringSubmatch: the submatch of the leftmost match, "" without match
FindString(t, key) ==
    LET hits == {i \in 1..Len(t) : StringAt(t, i, key)}
    IN IF hits = {} THEN "" ELSE t[AfterKey(t, Min(hits), key)].v

\* the number of the leftmost match, 0 without match
FindNumber(t, key) ==
    LET hits == {i \in 1..Len(t) : NumberAt(t, i, key)}
    IN IF hits = {} THEN 0 ELSE t[AfterKey(t, Min(hits), key)].v

\* a date field: left zero without match and when time.Parse fails
FindDate(t, key) ==
    LET m == FindString(t, key)
    IN IF m # "" /\ ~TimeParse(m).err THEN TimeParse(m).val ELSE ZeroDate

\* `"key"\s*:\s*\[\s*([\s\S]*?)\s*\]` matches at i
ArrayAt(t, i, key) ==
    LET n == AfterKey(t, i, key)
    IN n # 0 /\ IsP(t[n], "[") /\ \E j \in Positions(t, "]") : j > n

\* the submatch: the tokens up to the first ] after the opening bracket
FindArray(t, key) ==
    LET hits == {i \in 1..Len(t) : ArrayAt(t, i, key)}
    IN IF hits = {} THEN [found |-> FALSE, content |-> <<>>]
       ELSE LET n == AfterKey(t, Min(hits), key)
                e == Min({j \in Positions(t, "]") : j > n})
            IN [found |-> TRUE, content |-> SubSeq(t, n + 1, e - 1)]

RECURSIVE FindObjects(_)
\* `\{\s*([\s\S]*?)\s*\}`, FindAll: every { up to the next }, left to right
FindObjects(t) ==
    LET opens == Positions(t, "{")
    IN IF opens = {} THEN <<>>
       ELSE LET a == Min(opens)
                closes == {j \in Positions(t, "}") : j > a}
            IN IF closes = {} THEN <<>>
               ELSE <<SubSeq(t, a, Min(closes))>>
                       \o FindObjects(SubSeq(t, Min(closes) + 1, Len(t)))

\* `"([^"]+)"`, FindAll over the content of the details array
DetailStrings(t) ==
    LET strs == SelectSeq(t, LAMBDA x : x.k = "str" /\ x.v # "")
    IN [i \in 1..Len(strs) |-> strs[i].v]

\* the line item recovered from one object candidate
RecoverItem(itemContent) ==
    LET details == FindArray(itemContent, "details")
    IN [Description |-> FindString(itemContent, "description"),
        Details |-> IF details.found THEN DetailStrings(details.content)
                    ELSE <<>>,
        Quantity |-> FindNumber(itemContent, "quantity"),
        UnitPrice |-> FindNumber(itemContent, "unit_price"),
        Total |-> FindNumber(itemContent, "total"),
        Category |-> ""]

\* the items of the "items" array; an item is added when it has a description
RecoverItems(text) ==
    LET itemsMatch == FindArray(text, "items")
        itemMatches == IF itemsMatch.found
                          THEN FindObjects(itemsMatch.content) ELSE <<>>
        lineItems == [i \in 1..Len(itemMatches) |->
                         RecoverItem(itemMatches[i])]
    IN SelectSeq(lineItems, LAMBDA it : it.Description # "")

\* variant: a date that fails to parse ends the recovery of the fields
RecoverFields_StopAtBadDate(text) ==
    LET badDate(key) == /\ FindString(text, key) # ""
                        /\ TimeParse(FindString(text, key)).err
        stop1 == badDate("invoice_date")
        stop2 == stop1 \/ badDate("due_date")
    IN [VendorName |-> FindString(text, "vendor_name"),
        InvoiceNumber |-> FindString(text, "invoice_number"),
        InvoiceDate |-> FindDate(text, "invoice_date"),
        DueDate |-> IF stop1 THEN ZeroDate ELSE FindDate(text, "due_date"),
        Items |-> IF stop2 THEN <<>> ELSE RecoverItems(text),
        Subtotal |-> IF stop2 THEN 0 ELSE FindNumber(text, "subtotal"),
        TaxRatePercent |->
            IF stop2 THEN 0 ELSE FindNumber(text, "tax_rate_percent"),
        TaxAmount |-> IF stop2 THEN 0 ELSE FindNumber(text, "tax_amount"),
        Discount |-> IF stop2 THEN 0 ELSE FindNumber(text, "discount"),
        TotalDue |-> IF stop2 THEN 0 ELSE FindNumber(text, "total_due")]

\* the Invoice after all fields and items were attempted
RecoverFields(text) ==
    [VendorName |-> FindString(text, "vendor_name"),
     InvoiceNumber |-> FindString(text, "invoice_number"),
     InvoiceDate |-> FindDate(text, "invoice_date"),
     DueDate |-> FindDate(text, "due_date"),
     Items |-> RecoverItems(text),
     Subtotal |-> FindNumber(text, "subtotal"),
     TaxRatePercent |-> FindNumber(text, "tax_rate_percent"),
     TaxAmount |-> FindNumber(text, "tax_amount"),
     Discount |-> FindNumber(text, "discount"),
     TotalDue |-> FindNumber(text, "total_due")]

\* variant: the final test also wants a subtotal
NothingExtracted_Subtotal(inv) ==
    /\ inv.VendorName = ""
    /\ inv.InvoiceNumber = ""
    /\ inv.TotalDue = 0
    /\ inv.Subtotal = 0
    /\ Len(inv.Items) = 0

\* if invoice.VendorName == "" && invoice.InvoiceNumber == "" &&
\*    invoice.TotalDue == 0 && len(invoice.Items) == 0
NothingExtracted(inv) ==
    /\ inv.VendorName = ""
    /\ inv.InvoiceNumber = ""
    /\ inv.TotalDue = 0
    /\ Len(inv.Items) = 0

\* the outcome of the regex stage for the recovered Invoice
RegexOutcome(inv) ==
    IF NothingExtracted(inv) THEN Failed ELSE [ok |-> TRUE, invoice |-> inv]

\* the whole pipeline on a completion text
ParseContent(text) ==
    LET strict == StrictDecode(text)
        stripped == StripFences(text)
        embedded == EmbeddedDecode(stripped)
    IN IF strict.ok THEN strict
       ELSE IF embedded.ok THEN embedded
       ELSE RegexOutcome(RecoverFields(stripped))

\* ------------------------------------------------------------------------
\* Completion texts the model API may answer with
\* ------------------------------------------------------------------------
MaxItems == 2

RECURSIVE Join(_, _)
\* the parts, separated by sep
Join(parts, sep) ==
    IF parts = <<>> THEN <<>>
    ELSE IF Len(parts) = 1 THEN parts[1]
    ELSE parts[1] \o sep \o Join(Tail(parts), sep)

Comma == <<P(","), WS>>
Member(key, value) == <<S(key), P(":"), WS>> \o value
Object(members) == <<P("{")>> \o Join(members, Comma) \o <<P("}")>>
Array(elems) == <<P("[")>> \o Join(elems, Comma) \o <<P("]")>>

ItemBlank ==
    Object(<<Member("description", <<S("")>>), Member("total", <<N(500)>>)>>)
ItemWidget ==
    Object(<<Member("description", <<S("Widget")>>),
             Member("quantity", <<N(200)>>),
             Member("unit_price", <<N(250)>>),
             Member("total", <<N(500)>>)>>)
ItemGadget ==
    Object(<<Member("description", <<S("Gadget")>>),
             Member("details", Array(<<<<S("red")>>, <<S("large")>>>>)),
             Member("total", <<N(100)>>)>>)
\* items with the category member the prompt asks the model for
ItemTaxi ==
    Object(<<Member("description", <<S("Taxi ride")>>),
             Member("quantity", <<N(100)>>),
             Member("unit_price", <<N(1250)>>),
             Member("total", <<N(1250)>>),
             Member("category", <<S("Travel")>>)>>)
ItemGrab ==
    Object(<<Member("description", <<S("Grab to airport")>>),
             Member("total", <<N(900)>>),
             Member("category", <<S("")>>)>>)
ItemPool == {ItemBlank, ItemWidget, ItemGadget}

\* absent, or an items array of up to MaxItems objects
ItemsOptions ==
    {<<>>} \cup {<<Member("items", Array(l))>> :
                    l \in UNION {[1..n -> ItemPool] : n \in 0..MaxItems}}

VendorOptions == {<<>>, <<Member("vendor_name", <<S("Acme Corp")>>)>>}
NumberOptions == {<<>>, <<Member("invoice_number", <<S("INV-1")>>)>>}
TotalOptions == {<<>>, <<Member("total_due", <<N(7918)>>)>>}
SubtotalOptions ==
    {<<>>, <<Member("subtotal", <<N(10000)>>),
             Member("tax_amount", <<N(1000)>>)>>}

\* JSON objects of the invoice schema
Documents ==
    {Object(v \o n \o i \o s \o d) :
        v \in VendorOptions, n \in NumberOptions, i \in ItemsOptions,
        s \in SubtotalOptions, d \in TotalOptions}

\* further answers: empty and zero values, values of the wrong type, a key in
\* another case, a fence marker inside a string, dates, a bare null
SpecialDocuments ==
    { Object(<<Member("vendor_name", <<S("")>>),
               Member("total_due", <<N(0)>>)>>),
      Object(<<Member("vendor_name", <<N(500)>>),
               Member("total_due", <<N(7918)>>)>>),
      Object(<<Member("Vendor_Name", <<S("Acme Corp")>>),
               Member("total_due", <<N(-500)>>)>>),
      Object(<<Member("vendor_name", <<S("Ac~~~me")>>)>>),
      Object(<<Member("vendor_name", <<W("null")>>),
               Member("invoice_date", <<S("2024-01-15")>>),
               Member("due_date", <<S("15/01/2024")>>)>>),
      Object(<<Member("invoice_number", <<S("INV-1")>>),
               Member("invoice_date", <<S("15/01/2024")>>),
               Member("due_date", <<S("2024-02-14")>>),
               Member("tax_rate_percent", <<N(1000)>>),
               Member("discount", <<N(100)>>)>>),
      Object(<<Member("vendor_name", <<S("Acme Corp")>>),
               Member("items", Array(<<ItemTaxi, ItemGrab>>)),
               Member("total_due", <<N(2150)>>)>>),
      <<W("null")>>,
      <<W("I"), WS, W("could"), WS, W("not"), WS, W("read"), WS, W("this"),
        WS, W("image")>> }

Bases == Documents \cup SpecialDocuments

Wraps == {"plain", "fence", "fence_json", "prose", "brace_before",
          "brace_after", "cut", "unbraced"}

\* wrappers that leave the text of T whole: fences and surrounding prose
Wrappers == {"fence", "fence_json", "prose", "brace_before", "brace_after"}

\* the completion text made of T
Wrap(w, T) ==
    CASE w = "plain" -> T
      [] w = "fence" -> <<Fence, WS>> \o T \o <<WS, Fence>>
      [] w = "fence_json" -> <<Fence, W("json"), WS>> \o T \o <<WS, Fence>>
      [] w = "prose" ->
            <<W("Here"), WS, W("it"), WS, W("is"), WS>> \o T
               \o <<WS, W("Thanks")>>
      [] w = "brace_before" ->
            <<W("As"), WS, P("{"), W("JSON"), P("}"), WS>> \o T
      [] w = "brace_after" -> T \o <<WS, W("done"), WS, P("}")>>
      [] w = "cut" -> SubSeq(T, 1, Len(T) - 1)
      [] w = "unbraced" -> SubSeq(T, 2, Len(T) - 1)

\* ------------------------------------------------------------------------
\* Client.parseOpenRouterResponse as a sequence of stages
\* ------------------------------------------------------------------------
Pending == [status |-> "pending", op |-> "none", invoice |-> NewInvoice]
ParseError(op) == [status |-> "error", op |-> op, invoice |-> NewInvoice]
ParseOk(inv) == [status |-> "ok", op |-> "none", invoice |-> inv]

\* no response is being parsed
ParseIdle ==
    /\ respKind = "none"
    /\ base = <<>>
    /\ wrap = "none"
    /\ content = <<>>
    /\ ppc = "idle"
    /\ tried = <<>>
    /\ recovered = NewInvoice
    /\ parsed = Pending

\* a response body arrived
ParseInit ==
    /\ respKind \in {"content", "bad_body", "no_choices"}
    /\ IF respKind = "content"
          THEN base \in Bases /\ wrap \in Wraps
          ELSE base = <<>> /\ wrap = "plain"
    /\ content = Wrap(wrap, base)
    /\ ppc = "response"
    /\ tried = <<>>
    /\ recovered = NewInvoice
    /\ parsed = Pending

Stage(name, out) == [stage |-> name, status |-> out]

\* json.Unmarshal(respBody, &response), len(response.Choices) == 0
ReadResponse ==
    /\ ppc = "response"
    /\ IF respKind = "bad_body"
          THEN parsed' = ParseError("parse_response_json") /\ ppc' = "done"
          ELSE IF respKind = "no_choices"
          THEN parsed' = ParseError("check_response_choices") /\ ppc' = "done"
          ELSE parsed' = parsed /\ ppc' = "strict"
    /\ UNCHANGED <<respKind, base, wrap, content, tried, recovered>>
    /\ UNCHANGED <<poolVars, classifyVars, scanVars, repoVars,
                   aiVars, ocrVars>>

\* variant: a successful strict decode does not return
TryStrict_NoReturn ==
    /\ ppc = "strict"
    /\ LET r == StrictDecode(content)
       IN /\ tried' = Append(tried, Stage("strict",
                                          IF r.ok THEN "ok" ELSE "failed"))
          /\ parsed' = parsed
          /\ ppc' = "embedded"
    /\ UNCHANGED <<respKind, base, wrap, content, recovered>>
    /\ UNCHANGED <<poolVars, classifyVars, scanVars, repoVars,
                   aiVars, ocrVars>>

\* First, try to parse the entire response as JSON
TryStrict ==
    /\ ppc = "strict"
    /\ LET r == StrictDecode(content)
       IN /\ tried' = Append(tried, Stage("strict",
                                          IF r.ok THEN "ok" ELSE "failed"))
          /\ IF r.ok
                THEN parsed' = ParseOk(r.invoice) /\ ppc' = "done"
                ELSE parsed' = parsed /\ ppc' = "embedded"
    /\ UNCHANGED <<respKind, base, wrap, content, recovered>>
    /\ UNCHANGED <<poolVars, classifyVars, scanVars, repoVars,
                   aiVars, ocrVars>>

\* extractJSONWithRegex: strip the fences, try the embedded JSON object
TryEmbedded ==
    /\ ppc = "embedded"
    /\ content' = StripFences(content)
    /\ LET r == EmbeddedDecode(content')
       IN /\ tried' = Append(tried, Stage("embedded",
                                          IF r.ok THEN "ok" ELSE "failed"))
          /\ IF r.ok
                THEN parsed' = ParseOk(r.invoice) /\ ppc' = "done"
                ELSE parsed' = parsed /\ ppc' = "regex"
    /\ UNCHANGED <<respKind, base, wrap, recovered>>
    /\ UNCHANGED <<poolVars, classifyVars, scanVars, repoVars,
                   aiVars, ocrVars>>

\* extract individual fields and the line items using regex
RecoverWithRegex ==
    /\ ppc = "regex"
    /\ recovered' = RecoverFields(content)
    /\ tried' = Append(tried, Stage("regex", "running"))
    /\ ppc' = "check"
    /\ UNCHANGED <<respKind, base, wrap, content, parsed>>
    /\ UNCHANGED <<poolVars, classifyVars, scanVars, repoVars,
                   aiVars, ocrVars>>

\* If we couldn't extract anything, return an error
CheckExtracted ==
    /\ ppc = "check"
    /\ LET r == RegexOutcome(recovered)
       IN /\ tried' = [tried EXCEPT ![Len(tried)] =
                          Stage("regex", IF r.ok THEN "ok" ELSE "failed")]
          /\ parsed' = IF r.ok THEN ParseOk(r.invoice)
                       ELSE ParseError("extract_json_with_regex")
    /\ ppc' = "done"
    /\ UNCHANGED <<respKind, base, wrap, content, recovered>>
    /\ UNCHANGED <<poolVars, classifyVars, scanVars, repoVars,
                   aiVars, ocrVars>>

parseOpenRouterResponse ==
    \/ ReadResponse
    \/ TryStrict
    \/ TryEmbedded
    \/ RecoverWithRegex
    \/ CheckExtracted

\* ------------------------------------------------------------------------
\* Category normalization of a line item
\* ------------------------------------------------------------------------
MaxWords == 2

\* a text is a sequence of characters
Space == <<" ">>

Upper ==
    [A |-> "a", B |-> "b", C |-> "c", D |-> "d", E |-> "e", F |-> "f",
     G |-> "g", H |-> "h", I |-> "i", J |-> "j", K |-> "k", L |-> "l",
     M |-> "m", N |-> "n", O |-> "o", P |-> "p", Q |-> "q", R |-> "r",
     S |-> "s", T |-> "t", U |-> "u", V |-> "v", W |-> "w", X |-> "x",
     Y |-> "y", Z |-> "z"]

\* the lower-case form of a character
Lower(c) == IF c \in DOMAIN Upper THEN Upper[c] ELSE c

\* the lower-case form of a text
ToLower(text) == [i \in 1..Len(text) |-> Lower(text[i])]

\* sub occurs in text
Contains(text, sub) ==
    \E i \in 0..(Len(text) - Len(sub)) :
        SubSeq(text, i + 1, i + Len(sub)) = sub

\* the fixed, ordered keyword table
categoryKeywords ==
    << [keyword |-> <<"t", "a", "x", "i">>, category |-> "Transport"],
       [keyword |-> <<"u", "b", "e", "r">>, category |-> "Transport"],
       [keyword |-> <<"g", "r", "a", "b">>, category |-> "Transport"],
       [keyword |-> <<"h", "o", "t", "e", "l">>, category |-> "Accommodation"],
       [keyword |-> <<"i", "n", "n">>, category |-> "Accommodation"],
       [keyword |-> <<"f", "l", "i", "g", "h", "t">>, category |-> "Travel"],
       [keyword |-> <<"a", "i", "r", "f", "a", "r", "e">>,
        category |-> "Travel"],
       [keyword |-> <<"m", "e", "a", "l">>, category |-> "Food"],
       [keyword |-> <<"f", "o", "o", "d">>, category |-> "Food"],
       [keyword |-> <<"r", "e", "s", "t", "a", "u", "r", "a", "n", "t">>,
        category |-> "Food"],
       [keyword |-> <<"o", "f", "f", "i", "c", "e">>,
        category |-> "Office Supplies"],
       [keyword |-> <<"s", "t", "a", "t", "i", "o", "n", "e", "r", "y">>,
        category |-> "Office Supplies"],
       [keyword |-> <<"c", "o", "n", "s", "u", "l", "t">>,
        category |-> "Professional Services"],
       [keyword |-> <<"s", "e", "r", "v", "i", "c", "e">>,
        category |-> "Professional Services"] >>

\* variant: the last matching entry of the table wins
inferCategory_LastMatch(description) ==
    LET lower == ToLower(description)
        hits == {i \in 1..Len(categoryKeywords) :
                    Contains(lower, categoryKeywords[i].keyword)}
    IN IF hits = {} THEN "Other" ELSE categoryKeywords[Max(hits)].category

\* the category of the first entry whose keyword occurs in the description,
\* ignoring case; Other without a match
inferCategory(description) ==
    LET lower == ToLower(description)
        hits == {i \in 1..Len(categoryKeywords) :
                    Contains(lower, categoryKeywords[i].keyword)}
    IN IF hits = {} THEN "Other" ELSE categoryKeywords[Min(hits)].category

\* a category the model supplied is kept, an empty one is inferred
normalizeCategory(it) ==
    IF it.Category # "" THEN it.Category ELSE inferCategory(it.Description)

\* words of item descriptions
DescriptionWords ==
    { <<"G", "r", "a", "b">>,
      <<"T", "A", "X", "I">>,
      <<"H", "o", "t", "e", "l">>,
      <<"D", "i", "n", "n", "e", "r">>,
      <<"f", "l", "i", "g", "h", "t">>,
      <<"F", "o", "o", "d">>,
      <<"S", "E", "R", "V", "I", "C", "E">>,
      <<"O", "f", "f", "i", "c", "e">>,
      <<"W", "i", "d", "g", "e", "t">>,
      <<"a", "i", "r", "p", "o", "r", "t">>,
      <<"t", "o">> }

GrabToAirport ==
    <<"G", "r", "a", "b", " ", "t", "o", " ", "a", "i", "r", "p", "o", "r",
      "t">>

\* descriptions of up to MaxWords words, and "Grab to airport"
Descriptions ==
    {Join(ws, Space) :
        ws \in UNION {[1..n -> DescriptionWords] : n \in 0..MaxWords}}
       \cup {GrabToAirport}

\* the category the model gave: none, one the table has, one it has not
GivenCategories == {"", "Travel", "Groceries"}

\* no line item is being normalized
ClassifyIdle ==
    /\ cpc = "idle"
    /\ rawItem = [Description |-> <<>>, Category |-> ""]
    /\ lineItem = rawItem

\* a line item came out of the extraction
ClassifyInit ==
    /\ cpc = "extracted"
    /\ rawItem \in [Description : Descriptions, Category : GivenCategories]
    /\ lineItem = rawItem

\* the item gets its normalized category
NormalizeItem ==
    /\ cpc = "extracted"
    /\ lineItem' = [lineItem EXCEPT !.Category = normalizeCategory(lineItem)]
    /\ cpc' = "normalized"
    /\ UNCHANGED rawItem
    /\ UNCHANGED <<poolVars, parseVars, scanVars, repoVars,
                   aiVars, ocrVars>>

\* ------------------------------------------------------------------------
\* ReceiptServiceImpl.ScanReceipt: the Receipt built from the Invoice
\* ------------------------------------------------------------------------
\* int(item.Quantity): the float64 truncated toward zero
IntOf(q) == IF q >= 0 THEN q \div 100 ELSE 0 - ((0 - q) \div 100)

\* domain.ReceiptItem{Name: ..., Quantity: ..., Price: ...}: Category is not
\* set and stays ""
ReceiptItem(item) ==
    [Name |-> item.Description,
     Quantity |-> IntOf(item.Quantity),
     Price |-> item.UnitPrice,
     Category |-> ""]

\* Convert domain.Invoice to domain.Receipt
ToReceipt(inv) ==
    [Merchant |-> inv.VendorName,
     Date |-> inv.InvoiceDate,
     Total |-> inv.TotalDue,
     Tax |-> inv.TaxAmount,
     Subtotal |-> inv.Subtotal,
     Items |-> [i \in 1..Len(inv.Items) |-> ReceiptItem(inv.Items[i])]]

\* ------------------------------------------------------------------------
\* One POST /v1/receipts/scan request, from the handler to the response
\* ------------------------------------------------------------------------
\* DefaultConfig().MaxRetries
DefaultMaxRetries == 3

\* what the handler looks for in the text of an error
Phrases == {"not configured", "unable to extract"}

\* the phrases the body of a collaborator's error response may hold
BodyPhrases == {{}, {"not configured"}, {"unable to extract"}}

\* an error: the Op of every wrapping level, outermost first, and the phrases
\* its text holds
ErrorOf(ops, phrases) == [ops |-> ops, phrases |-> phrases]
NoErr == ErrorOf(<<>>, {})

\* &ReceiptServiceError{Op: op, Err: err}: the text is "op: " + err.Error()
ReceiptServiceError(op, err) == ErrorOf(<<op>> \o err.ops, err.phrases)

\* &OpenRouterError{Op: op, Err: err}
OpenRouterError(op, err) == ErrorOf(<<op>> \o err.ops, err.phrases)

\* an error without Op: ctx.Err(), fmt.Errorf, the errors of net/http, json
\* and the repository
Plain(phrases) == ErrorOf(<<>>, phrases)

\* the Client built by NewClient: MaxRetries is not copied into it
NewClient(cfg) ==
    [supabaseURL |-> cfg.SupabaseURL,
     supabaseAPIKey |-> cfg.SupabaseAPIKey,
     apiKey |-> cfg.APIKey]

\* configurations: every key set or missing, MaxRetries zero or the default
Configs ==
    [SupabaseURL : BOOLEAN, SupabaseAPIKey : BOOLEAN, APIKey : BOOLEAN,
     MaxRetries : {0, DefaultMaxRetries}]

\* the response bodies the model API may send with status 200
ScanBodies ==
    {[kind |-> "bad_body", text |-> <<>>],
     [kind |-> "no_choices", text |-> <<>>]}
       \cup {[kind |-> "content", text |-> t] :
                t \in {Object(<<Member("vendor_name", <<S("Acme Corp")>>),
                                Member("items", Array(<<ItemWidget>>)),
                                Member("total_due", <<N(7918)>>)>>),
                       Wrap("cut",
                            Object(<<Member("vendor_name", <<S("Acme Corp")>>),
                                     Member("total_due", <<N(7918)>>)>>)),
                       Wrap("fence", Object(<<Member("items",
                                                     Array(<<ItemTaxi>>))>>)),
                       Object(<<>>),
                       <<W("I"), WS, W("could"), WS, W("not"), WS, W("read"),
                         WS, W("this"), WS, W("image")>>}}

\* parseOpenRouterResponse(respBody) as a function of the body
ParseBody(body) ==
    IF body.kind = "bad_body"
       THEN [ok |-> FALSE, invoice |-> NewInvoice,
             err |-> OpenRouterError("parse_response_json", Plain({}))]
    ELSE IF body.kind = "no_choices"
       THEN [ok |-> FALSE, invoice |-> NewInvoice,
             err |-> OpenRouterError("check_response_choices", Plain({}))]
    ELSE LET r == ParseContent(body.text)
         IN IF r.ok THEN [ok |-> TRUE, invoice |-> r.invoice, err |-> NoErr]
            ELSE [ok |-> FALSE, invoice |-> NewInvoice,
                  err |-> OpenRouterError("extract_json_with_regex",
                                          Plain({}))]

\* the status the handler answers an error of ScanReceipt with
StatusOf(err) ==
    IF "not configured" \in err.phrases THEN 400
    ELSE IF "unable to extract" \in err.phrases THEN 422
    ELSE 500

NoReceipt == ToReceipt(NewInvoice)

\* no request is being handled
ScanIdle ==
    /\ spc = "idle"
    /\ hasImage = FALSE
    /\ config = [SupabaseURL |-> TRUE, SupabaseAPIKey |-> TRUE,
                 APIKey |-> TRUE, MaxRetries |-> DefaultMaxRetries]
    /\ poolFull = FALSE
    /\ scanCtx = FALSE
    /\ slotHeld = FALSE
    /\ admitted = FALSE
    /\ uploads = 0
    /\ requests = 0
    /\ uploadReply = "none"
    /\ modelReply = "none"
    /\ storeReply = "none"
    /\ respBody = [kind |-> "none", text |-> <<>>]
    /\ invoiceData = NewInvoice
    /\ receipt = NoReceipt
    /\ scanErr = NoErr
    /\ httpStatus = 0
    /\ imageURL = ""
    /\ sentURL = ""
    /\ steps = <<>>

\* a request arrived at the handler of a configured server
ScanInit ==
    /\ spc = "handler"
    /\ hasImage \in BOOLEAN
    /\ config \in Configs
    /\ poolFull \in BOOLEAN
    /\ scanCtx = FALSE
    /\ slotHeld = FALSE
    /\ admitted = FALSE
    /\ uploads = 0
    /\ requests = 0
    /\ uploadReply = "none"
    /\ modelReply = "none"
    /\ storeReply = "none"
    /\ respBody = [kind |-> "none", text |-> <<>>]
    /\ invoiceData = NewInvoice
    /\ receipt = NoReceipt
    /\ scanErr = NoErr
    /\ httpStatus = 0
    /\ imageURL = ""
    /\ sentURL = ""
    /\ steps = <<>>

\* the step moves to st, the service call ends with err
ScanStep(st, err) ==
    /\ spc' = st
    /\ scanErr' = err

\* the service call returns err: the deferred release runs when a slot is held
ScanReturn(err) ==
    /\ ScanStep("respond", err)
    /\ slotHeld' = FALSE

\* ReceiptHandler.ScanReceipt: FormFile and io.ReadAll
ReadForm ==
    /\ spc = "handler"
    /\ \/ /\ ~hasImage
          /\ httpStatus' = 400
          /\ spc' = "done"
       \/ /\ hasImage
          /\ \E readOk \in BOOLEAN :
                IF readOk THEN httpStatus' = httpStatus /\ spc' = "select"
                ELSE httpStatus' = 500 /\ spc' = "done"
    /\ UNCHANGED <<imageURL, sentURL, steps, storeReply,
                   hasImage, config, poolFull, scanCtx, slotHeld, admitted,
                   uploads, requests, uploadReply, modelReply, respBody,
                   invoiceData, receipt, scanErr>>
    /\ UNCHANGED <<poolVars, parseVars, classifyVars, repoVars,
                   aiVars, ocrVars>>

\* case s.workerPool <- struct{}{}: the pool has room
AcquireWorker ==
    /\ spc = "select"
    /\ ~poolFull
    /\ slotHeld' = TRUE
    /\ admitted' = TRUE
    /\ spc' = "config"
    /\ UNCHANGED <<imageURL, sentURL, steps, storeReply,
                   hasImage, config, poolFull, scanCtx, uploads, requests,
                   uploadReply, modelReply, respBody, invoiceData, receipt,
                   scanErr, httpStatus>>
    /\ UNCHANGED <<poolVars, parseVars, classifyVars, repoVars,
                   aiVars, ocrVars>>

\* neither case is ready: the call parks in the select
ParkInSelect ==
    /\ spc = "select"
    /\ poolFull
    /\ ~scanCtx
    /\ spc' = "parked"
    /\ UNCHANGED <<imageURL, sentURL, steps, storeReply,
                   hasImage, config, poolFull, scanCtx, slotHeld, admitted,
                   uploads, requests, uploadReply, modelReply, respBody,
                   invoiceData, receipt, scanErr, httpStatus>>
    /\ UNCHANGED <<poolVars, parseVars, classifyVars, repoVars,
                   aiVars, ocrVars>>

\* another call releases its slot: the parked call gets it
WorkerHandedOver ==
    /\ spc = "parked"
    /\ slotHeld' = TRUE
    /\ admitted' = TRUE
    /\ spc' = "config"
    /\ UNCHANGED <<imageURL, sentURL, steps, storeReply,
                   hasImage, config, poolFull, scanCtx, uploads, requests,
                   uploadReply, modelReply, respBody, invoiceData, receipt,
                   scanErr, httpStatus>>
    /\ UNCHANGED <<poolVars, parseVars, classifyVars, repoVars,
                   aiVars, ocrVars>>

\* the client goes away or the deadline passes: c.Request.Context() is done;
\* a parked call is woken with the ctx.Done() case
CancelRequest ==
    /\ spc \notin {"idle", "done"}
    /\ ~scanCtx
    /\ scanCtx' = TRUE
    /\ spc' = IF spc = "parked" THEN "woken" ELSE spc
    /\ UNCHANGED <<imageURL, sentURL, steps, storeReply,
                   hasImage, config, poolFull, slotHeld, admitted, uploads,
                   requests, uploadReply, modelReply, respBody, invoiceData,
                   receipt, scanErr, httpStatus>>
    /\ UNCHANGED <<poolVars, parseVars, classifyVars, repoVars,
                   aiVars, ocrVars>>

\* variant: the cancellation is reported as a failed extraction
ReturnAcquireError_AsExtract ==
    /\ \/ spc = "woken"
       \/ spc = "select" /\ scanCtx
    /\ ScanReturn(ReceiptServiceError("extract_receipt_data",
                     OpenRouterError("extract_json_with_regex", Plain({}))))
    /\ UNCHANGED <<imageURL, sentURL, steps, storeReply,
                   hasImage, config, poolFull, scanCtx, admitted, uploads,
                   requests, uploadReply, modelReply, respBody, invoiceData,
                   receipt, httpStatus>>
    /\ UNCHANGED <<poolVars, parseVars, classifyVars, repoVars,
                   aiVars, ocrVars>>

\* case <-ctx.Done(): return the acquire_worker error
ReturnAcquireError ==
    /\ \/ spc = "woken"
       \/ spc = "select" /\ scanCtx
    /\ ScanReturn(ReceiptServiceError("acquire_worker", Plain({})))
    /\ UNCHANGED <<imageURL, sentURL, steps, storeReply,
                   hasImage, config, poolFull, scanCtx, admitted, uploads,
                   requests, uploadReply, modelReply, respBody, invoiceData,
                   receipt, httpStatus>>
    /\ UNCHANGED <<poolVars, parseVars, classifyVars, repoVars,
                   aiVars, ocrVars>>

\* the error ExtractInvoiceData returns, wrapped by ScanReceipt
ExtractFailed(err) ==
    ScanReturn(ReceiptServiceError("extract_receipt_data", err))

\* variant: the key of the model API is not checked before the upload
ValidateConfiguration_NoAPIKey ==
    /\ spc = "config"
    /\ steps' = Append(steps, "config")
    /\ LET c == NewClient(config)
       IN IF ~c.supabaseURL \/ ~c.supabaseAPIKey
             THEN ExtractFailed(OpenRouterError("validate_configuration",
                                                Plain({"not configured"})))
             ELSE ScanStep("upload", scanErr) /\ slotHeld' = slotHeld
    /\ UNCHANGED <<imageURL, sentURL, storeReply,
                   hasImage, config, poolFull, scanCtx, admitted, uploads,
                   requests, uploadReply, modelReply, respBody, invoiceData,
                   receipt, httpStatus>>
    /\ UNCHANGED <<poolVars, parseVars, classifyVars, repoVars,
                   aiVars, ocrVars>>

\* Client.ExtractInvoiceData: check for required configuration
ValidateConfiguration ==
    /\ spc = "config"
    /\ steps' = Append(steps, "config")
    /\ LET c == NewClient(config)
       IN IF ~c.supabaseURL \/ ~c.supabaseAPIKey \/ ~c.apiKey
             THEN ExtractFailed(OpenRouterError("validate_configuration",
                                                Plain({"not configured"})))
             ELSE ScanStep("upload", scanErr) /\ slotHeld' = slotHeld
    /\ UNCHANGED <<imageURL, sentURL, storeReply,
                   hasImage, config, poolFull, scanCtx, admitted, uploads,
                   requests, uploadReply, modelReply, respBody, invoiceData,
                   receipt, httpStatus>>
    /\ UNCHANGED <<poolVars, parseVars, classifyVars, repoVars,
                   aiVars, ocrVars>>

\* fmt.Sprintf("invoice_%d.png", timestamp)
Filenames == {"invoice_1.png", "invoice_2.png"}

\* the public URL of the uploaded image
PublicURL(filename) ==
    IF filename = "invoice_1.png" THEN "public/invoice_1.png"
    ELSE "public/invoice_2.png"

\* what the storage collaborator does with the upload
UploadReplies == {"ok", "created", "bad_url", "network", "status"}

\* variant: a failed upload is sent again while MaxRetries allows
UploadImageToSupabase_Retry ==
    /\ spc = "upload"
    /\ steps' = Append(steps, "upload")
    /\ \E reply \in UploadReplies, body \in BodyPhrases,
          filename \in Filenames :
          /\ reply # "status" => body = {}
          /\ uploadReply' = reply
          /\ imageURL' = IF reply \in {"ok", "created"}
                          THEN PublicURL(filename) ELSE ""
          /\ uploads' = IF reply = "bad_url" THEN uploads ELSE uploads + 1
          /\ IF reply \in {"ok", "created"}
                THEN ScanStep("request", scanErr) /\ slotHeld' = slotHeld
             ELSE IF reply # "bad_url" /\ uploads < config.MaxRetries
                THEN ScanStep("upload", scanErr) /\ slotHeld' = slotHeld
             ELSE ExtractFailed(OpenRouterError("upload_image",
                     OpenRouterError("send_upload_request", Plain({}))))
    /\ UNCHANGED <<sentURL, storeReply,
                   hasImage, config, poolFull, scanCtx, admitted, requests,
                   modelReply, respBody, invoiceData, receipt, httpStatus>>
    /\ UNCHANGED <<poolVars, parseVars, classifyVars, repoVars,
                   aiVars, ocrVars>>

\* Client.UploadImageToSupabase, called once by ExtractInvoiceData
UploadImageToSupabase ==
    /\ spc = "upload"
    /\ steps' = Append(steps, "upload")
    /\ \E reply \in UploadReplies, body \in BodyPhrases,
          filename \in Filenames :
          /\ reply # "status" => body = {}
          /\ uploadReply' = reply
          /\ imageURL' = IF reply \in {"ok", "created"}
                          THEN PublicURL(filename) ELSE ""
          /\ uploads' = IF reply = "bad_url" THEN uploads ELSE uploads + 1
          /\ CASE reply \in {"ok", "created"} ->
                     ScanStep("request", scanErr) /\ slotHeld' = slotHeld
               [] reply = "bad_url" ->
                     ExtractFailed(OpenRouterError("upload_image",
                        OpenRouterError("create_upload_request", Plain({}))))
               [] reply = "network" ->
                     ExtractFailed(OpenRouterError("upload_image",
                        OpenRouterError("send_upload_request", Plain({}))))
               [] reply = "status" ->
                     ExtractFailed(OpenRouterError("upload_image",
                        OpenRouterError("check_upload_response", Plain(body))))
    /\ UNCHANGED <<sentURL, storeReply,
                   hasImage, config, poolFull, scanCtx, admitted, requests,
                   modelReply, respBody, invoiceData, receipt, httpStatus>>
    /\ UNCHANGED <<poolVars, parseVars, classifyVars, repoVars,
                   aiVars, ocrVars>>

\* what the model API does with the request
ModelReplies == {"ok", "network", "read", "status"}

\* c.httpClient.Do(req), io.ReadAll(resp.Body), the status check
SendExtractRequest ==
    /\ spc = "request"
    /\ steps' = Append(steps, "request")
    /\ sentURL' = imageURL
    /\ \E reply \in ModelReplies, body \in BodyPhrases, rb \in ScanBodies :
          /\ reply # "status" => body = {}
          /\ modelReply' = reply
          /\ requests' = requests + 1
          /\ respBody' = IF reply = "ok" THEN rb ELSE respBody
          /\ CASE reply = "ok" ->
                     ScanStep("parse", scanErr) /\ slotHeld' = slotHeld
               [] reply = "network" ->
                     ExtractFailed(OpenRouterError("send_extract_request",
                                                   Plain({})))
               [] reply = "read" ->
                     ExtractFailed(OpenRouterError("read_response", Plain({})))
               [] reply = "status" ->
                     ExtractFailed(OpenRouterError("check_api_response",
                                                   Plain(body)))
    /\ UNCHANGED <<imageURL, storeReply,
                   hasImage, config, poolFull, scanCtx, admitted, uploads,
                   uploadReply, invoiceData, receipt, httpStatus>>
    /\ UNCHANGED <<poolVars, parseVars, classifyVars, repoVars,
                   aiVars, ocrVars>>

\* return c.parseOpenRouterResponse(respBody)
ParseResponse ==
    /\ spc = "parse"
    /\ steps' = Append(steps, "parse")
    /\ \E r \in {ParseBody(respBody)} :
          IF r.ok
             THEN /\ invoiceData' = r.invoice
                  /\ ScanStep("store", scanErr)
                  /\ slotHeld' = slotHeld
             ELSE /\ invoiceData' = invoiceData
                  /\ ExtractFailed(r.err)
    /\ UNCHANGED <<imageURL, sentURL, storeReply,
                   hasImage, config, poolFull, scanCtx, admitted, uploads,
                   requests, uploadReply, modelReply, respBody, receipt,
                   httpStatus>>
    /\ UNCHANGED <<poolVars, parseVars, classifyVars, repoVars,
                   aiVars, ocrVars>>

\* the Receipt is built and handed to repository.CreateReceipt(ctx, receipt),
\* which fails when the context is done or the database does
StoreReceipt ==
    /\ spc = "store"
    /\ \E stored \in BOOLEAN :
          /\ scanCtx => ~stored
          /\ storeReply' = IF stored THEN "ok" ELSE "error"
          /\ IF stored
                THEN /\ receipt' = ToReceipt(invoiceData)
                     /\ ScanReturn(NoErr)
                ELSE /\ receipt' = receipt
                     /\ ScanReturn(ReceiptServiceError("store_receipt",
                                                       Plain({})))
    /\ UNCHANGED <<imageURL, sentURL, steps,
                   hasImage, config, poolFull, scanCtx, admitted, uploads,
                   requests, uploadReply, modelReply, respBody, invoiceData,
                   httpStatus>>
    /\ UNCHANGED <<poolVars, parseVars, classifyVars, repoVars,
                   aiVars, ocrVars>>

\* ReceiptHandler.ScanReceipt: the response for what the service returned
Respond ==
    /\ spc = "respond"
    /\ httpStatus' = IF scanErr = NoErr THEN 200 ELSE StatusOf(scanErr)
    /\ spc' = "done"
    /\ UNCHANGED <<imageURL, sentURL, steps, storeReply,
                   hasImage, config, poolFull, scanCtx, slotHeld, admitted,
                   uploads, requests, uploadReply, modelReply, respBody,
                   invoiceData, receipt, scanErr>>
    /\ UNCHANGED <<poolVars, parseVars, classifyVars, repoVars,
                   aiVars, ocrVars>>

HandleScanRequest ==
    \/ ReadForm
    \/ AcquireWorker
    \/ ParkInSelect
    \/ WorkerHandedOver
    \/ CancelRequest
    \/ ReturnAcquireError
    \/ ValidateConfiguration
    \/ UploadImageToSupabase
    \/ SendExtractRequest
    \/ ParseResponse
    \/ StoreReceipt
    \/ Respond

\* ------------------------------------------------------------------------
\* Constructors
\* ------------------------------------------------------------------------
DefaultWorkers == 5

\* make(chan struct{}, maxWorkers): the argument is used as it is
NewReceiptService(mw) == mw

\* if maxWorkers <= 0 { maxWorkers = 5 }
NewAIProcessorService(mw) == IF mw <= 0 THEN DefaultWorkers ELSE mw

NewOpenRouterService(mw) == IF mw <= 0 THEN DefaultWorkers ELSE mw

NewService(s, mw) ==
    CASE s = "ReceiptService" -> NewReceiptService(mw)
      [] s = "AIProcessorService" -> NewAIProcessorService(mw)
      [] s = "OpenRouterService" -> NewOpenRouterService(mw)

\* ------------------------------------------------------------------------
\* Results
\* ------------------------------------------------------------------------
NoResult == [err |-> "pending", resp |-> "none", cause |-> "none"]

\* the error returned when ctx.Done() was selected
CancelError(s) ==
    CASE s = "ReceiptService" ->
            [err |-> "acquire_worker", resp |-> "none", cause |-> "context"]
      [] s = "AIProcessorService" ->
            [err |-> "acquire_worker", resp |-> "none", cause |-> "context"]
      [] s = "OpenRouterService" ->
            [err |-> "context", resp |-> "none", cause |-> "context"]

\* the return after a failed ExtractInvoiceData
ExtractError(s) ==
    CASE s = "ReceiptService" ->
            [err |-> "extract_receipt_data", resp |-> "none",
             cause |-> "extract"]
      [] s = "AIProcessorService" ->
            [err |-> "nil", resp |-> "error_text", cause |-> "extract"]
      [] s = "OpenRouterService" ->
            [err |-> "nil", resp |-> "error_text", cause |-> "extract"]

\* the return at the end of the call; storeOk: the repository call succeeded
FinalResult(s, storeOk) ==
    CASE s = "ReceiptService" ->
            IF storeOk
               THEN [err |-> "nil", resp |-> "receipt", cause |-> "none"]
               ELSE [err |-> "store_receipt", resp |-> "none",
                     cause |-> "create_receipt"]
      [] s = "AIProcessorService" ->
            [err |-> "nil", resp |-> "invoice", cause |-> "none"]
      [] s = "OpenRouterService" ->
            [err |-> "nil", resp |-> "invoice", cause |-> "none"]

Holding == {"Admitted", "Running", "Storing"}
Returned == {"Completed", "Cancelled"}

\* ------------------------------------------------------------------------
\* Initial state: a constructed service, no call has reached the select
\* ------------------------------------------------------------------------
PoolInit ==
    /\ svc \in Services
    /\ maxWorkers \in MaxWorkersInputs
    /\ poolCap = NewService(svc, maxWorkers)
    /\ workerPool = 0
    /\ sendq = {}
    /\ pc = [c \in Calls |-> "Start"]
    /\ ctxDone = [c \in Calls |-> FALSE]
    /\ result = [c \in Calls |-> NoResult]
    /\ extractCalls = [c \in Calls |-> 0]
    /\ acquires = [c \in Calls |-> 0]
    /\ releases = [c \in Calls |-> 0]
    /\ cancelAt = [c \in Calls |-> "none"]
    /\ hist = [c \in Calls |-> <<"Start">>]

Goto(c, st) ==
    /\ pc' = [pc EXCEPT ![c] = st]
    /\ hist' = [hist EXCEPT ![c] = Append(@, st)]

\* ------------------------------------------------------------------------
\* select { case workerPool <- struct{}{}: ... case <-ctx.Done(): ... }
\* ------------------------------------------------------------------------
\* variant: the send is not bounded by the capacity of the channel
SelectSend_Unbounded(c) ==
    /\ pc[c] = "Start"
    /\ workerPool' = workerPool + 1
    /\ acquires' = [acquires EXCEPT ![c] = @ + 1]
    /\ Goto(c, "Admitted")
    /\ UNCHANGED <<svc, maxWorkers, poolCap, sendq, ctxDone, result,
                   extractCalls, releases, cancelAt>>
    /\ UNCHANGED <<parseVars, classifyVars, scanVars, repoVars,
                   aiVars, ocrVars>>

\* the send case can proceed and is chosen
SelectSend(c) ==
    /\ pc[c] = "Start"
    /\ workerPool < poolCap
    /\ workerPool' = workerPool + 1
    /\ acquires' = [acquires EXCEPT ![c] = @ + 1]
    /\ Goto(c, "Admitted")
    /\ UNCHANGED <<svc, maxWorkers, poolCap, sendq, ctxDone, result,
                   extractCalls, releases, cancelAt>>
    /\ UNCHANGED <<parseVars, classifyVars, scanVars, repoVars,
                   aiVars, ocrVars>>

\* the ctx.Done() case can proceed and is chosen
SelectDone(c) ==
    /\ pc[c] = "Start"
    /\ ctxDone[c]
    /\ Goto(c, "Woken")
    /\ UNCHANGED <<svc, maxWorkers, poolCap, workerPool, sendq, ctxDone,
                   result, extractCalls, acquires, releases, cancelAt>>
    /\ UNCHANGED <<parseVars, classifyVars, scanVars, repoVars,
                   aiVars, ocrVars>>

\* no case can proceed: the goroutine parks on both channels
SelectBlock(c) ==
    /\ pc[c] = "Start"
    /\ ~(workerPool < poolCap)
    /\ ~ctxDone[c]
    /\ sendq' = sendq \cup {c}
    /\ Goto(c, "Waiting")
    /\ UNCHANGED <<svc, maxWorkers, poolCap, workerPool, ctxDone, result,
                   extractCalls, acquires, releases, cancelAt>>
    /\ UNCHANGED <<parseVars, classifyVars, scanVars, repoVars,
                   aiVars, ocrVars>>

\* case <-ctx.Done(): return nil, &ReceiptServiceError{Op: "acquire_worker"}
ReturnCancelled(c) ==
    /\ pc[c] = "Woken"
    /\ result' = [result EXCEPT ![c] = CancelError(svc)]
    /\ Goto(c, "Cancelled")
    /\ UNCHANGED <<svc, maxWorkers, poolCap, workerPool, sendq, ctxDone,
                   extractCalls, acquires, releases, cancelAt>>
    /\ UNCHANGED <<parseVars, classifyVars, scanVars, repoVars,
                   aiVars, ocrVars>>

\* variant: the select has no ctx.Done() case, a parked call stays parked
CancelCtx_NoWake(c) ==
    /\ pc[c] \notin Returned
    /\ ~ctxDone[c]
    /\ ctxDone' = [ctxDone EXCEPT ![c] = TRUE]
    /\ cancelAt' = [cancelAt EXCEPT ![c] = pc[c]]
    /\ UNCHANGED <<svc, maxWorkers, poolCap, workerPool, sendq, pc, hist,
                   result, extractCalls, acquires, releases>>
    /\ UNCHANGED <<parseVars, classifyVars, scanVars, repoVars,
                   aiVars, ocrVars>>

\* the caller's context is cancelled; closing ctx.Done() wakes a call parked
\* in the select with the ctx.Done() case and takes it off the send queue
CancelCtx(c) ==
    /\ pc[c] \notin Returned
    /\ ~ctxDone[c]
    /\ ctxDone' = [ctxDone EXCEPT ![c] = TRUE]
    /\ cancelAt' = [cancelAt EXCEPT ![c] = pc[c]]
    /\ IF pc[c] = "Waiting"
          THEN /\ sendq' = sendq \ {c}
               /\ Goto(c, "Woken")
          ELSE UNCHANGED <<sendq, pc, hist>>
    /\ UNCHANGED <<svc, maxWorkers, poolCap, workerPool, result,
                   extractCalls, acquires, releases>>
    /\ UNCHANGED <<parseVars, classifyVars, scanVars, repoVars,
                   aiVars, ocrVars>>

\* ------------------------------------------------------------------------
\* the admitted call
\* ------------------------------------------------------------------------
\* variant: the context is checked again before the model call
CallExtract_CtxCheck(c) ==
    /\ pc[c] = "Admitted"
    /\ IF ctxDone[c]
          THEN /\ result' = [result EXCEPT ![c] = CancelError(svc)]
               /\ workerPool' = workerPool - 1
               /\ releases' = [releases EXCEPT ![c] = @ + 1]
               /\ Goto(c, "Cancelled")
               /\ UNCHANGED extractCalls
          ELSE /\ extractCalls' = [extractCalls EXCEPT ![c] = @ + 1]
               /\ Goto(c, "Running")
               /\ UNCHANGED <<workerPool, result, releases>>
    /\ UNCHANGED <<svc, maxWorkers, poolCap, sendq, ctxDone, acquires,
                   cancelAt>>
    /\ UNCHANGED <<parseVars, classifyVars, scanVars, repoVars,
                   aiVars, ocrVars>>

\* s.openAIClient.ExtractInvoiceData(imageData) is invoked
CallExtract(c) ==
    /\ pc[c] = "Admitted"
    /\ extractCalls' = [extractCalls EXCEPT ![c] = @ + 1]
    /\ Goto(c, "Running")
    /\ UNCHANGED <<svc, maxWorkers, poolCap, workerPool, sendq, ctxDone,
                   result, acquires, releases, cancelAt>>
    /\ UNCHANGED <<parseVars, classifyVars, scanVars, repoVars,
                   aiVars, ocrVars>>

\* defer func() { <-s.workerPool }(): the receive hands the freed slot to a
\* parked sender when there is one, else the buffer shrinks by one
ReleaseTo(c, w) ==
    /\ releases' = [releases EXCEPT ![c] = @ + 1]
    /\ IF w = 0
          THEN /\ workerPool' = workerPool - 1
               /\ UNCHANGED <<sendq, acquires>>
          ELSE /\ workerPool' = workerPool
               /\ sendq' = sendq \ {w}
               /\ acquires' = [acquires EXCEPT ![w] = @ + 1]

\* variant: a release never wakes a parked sender
Receivers_NoHandoff == {0}

Receivers == IF sendq = {} THEN {0} ELSE sendq

\* pc and hist after call c returned and handed its slot to w (0: nobody)
ReturnTo(c, w) ==
    /\ pc' = [x \in Calls |-> IF x = c THEN "Completed"
                              ELSE IF x = w THEN "Admitted" ELSE pc[x]]
    /\ hist' = [x \in Calls |-> IF x = c THEN Append(hist[x], "Completed")
                                ELSE IF x = w THEN Append(hist[x], "Admitted")
                                ELSE hist[x]]

\* variant: the error return does not release the slot
ExtractFails_NoRelease(c) ==
    /\ pc[c] = "Running"
    /\ result' = [result EXCEPT ![c] = ExtractError(svc)]
    /\ Goto(c, "Completed")
    /\ UNCHANGED <<svc, maxWorkers, poolCap, workerPool, sendq, ctxDone,
                   extractCalls, acquires, releases, cancelAt>>
    /\ UNCHANGED <<parseVars, classifyVars, scanVars, repoVars,
                   aiVars, ocrVars>>

\* ExtractInvoiceData returned an error: the call returns, the slot is released
ExtractFails(c) ==
    /\ pc[c] = "Running"
    /\ result' = [result EXCEPT ![c] = ExtractError(svc)]
    /\ \E w \in Receivers : ReleaseTo(c, w) /\ ReturnTo(c, w)
    /\ UNCHANGED <<svc, maxWorkers, poolCap, ctxDone, extractCalls, cancelAt>>
    /\ UNCHANGED <<parseVars, classifyVars, scanVars, repoVars,
                   aiVars, ocrVars>>

\* ExtractInvoiceData returned an Invoice
ExtractOk(c) ==
    /\ pc[c] = "Running"
    /\ Goto(c, "Storing")
    /\ UNCHANGED <<svc, maxWorkers, poolCap, workerPool, sendq, ctxDone,
                   result, extractCalls, acquires, releases, cancelAt>>
    /\ UNCHANGED <<parseVars, classifyVars, scanVars, repoVars,
                   aiVars, ocrVars>>

\* the repository call (it fails on a cancelled context) and the return
StoreAndReturn(c) ==
    /\ pc[c] = "Storing"
    /\ \E storeOk \in IF ctxDone[c] THEN {FALSE} ELSE {TRUE, FALSE} :
          result' = [result EXCEPT ![c] = FinalResult(svc, storeOk)]
    /\ \E w \in Receivers : ReleaseTo(c, w) /\ ReturnTo(c, w)
    /\ UNCHANGED <<svc, maxWorkers, poolCap, ctxDone, extractCalls, cancelAt>>
    /\ UNCHANGED <<parseVars, classifyVars, scanVars, repoVars,
                   aiVars, ocrVars>>

ScanReceipt(c) ==
    \/ SelectSend(c)
    \/ SelectDone(c)
    \/ SelectBlock(c)
    \/ ReturnCancelled(c)
    \/ CallExtract(c)
    \/ ExtractFails(c)
    \/ ExtractOk(c)
    \/ StoreAndReturn(c)

\* ------------------------------------------------------------------------
\* The receipts API over the in-memory SupabaseRepository
\* ------------------------------------------------------------------------
\* the width of the model's int; Go's int overflows the same way at 64 bits
IntBits == 16
MaxInt == 2 ^ (IntBits - 1) - 1

\* the value an int holds after an arithmetic overflow
ToInt(x) ==
    LET m == x % (2 ^ IntBits)
    IN IF m > MaxInt THEN m - 2 ^ IntBits ELSE m

\* IDs a client writes into a request
ClientIDs == {"a"}

\* the instants time.Now() may return, and the ID CreateReceipt makes of one
Instants == {1}
GeneratedID(t) == IF t = 1 THEN "receipt-1" ELSE "receipt-2"

ReceiptIDs == ClientIDs \cup {GeneratedID(t) : t \in Instants}

Merchants == {"Acme", "Bolt"}
Dates == {1, 2}

\* a nil *time.Time
NoDate == 0

\* the bodies of POST and PUT: not JSON, failing validateReceiptInput, valid
ReceiptInputs ==
    [kind : {"bad_json"}, ID : {""}, Merchant : {""}, Date : {NoDate}]
       \cup [kind : {"json"}, ID : ClientIDs \cup {""}, Merchant : {""},
             Date : Dates]
       \cup [kind : {"json"}, ID : ClientIDs \cup {""}, Merchant : Merchants,
             Date : Dates]

\* a stored domain.Receipt
Receipt(id, input) ==
    [ID |-> id, Merchant |-> input.Merchant, Date |-> input.Date]

\* strconv.Atoi of a query parameter
Atoi(str) ==
    IF str.digits THEN [val |-> str.val, err |-> FALSE]
    ELSE [val |-> 0, err |-> TRUE]

\* c.DefaultQuery(key, def): the parameter, def when it is absent
DefaultQuery(param, def) ==
    IF param.given THEN param ELSE [given |-> TRUE, digits |-> TRUE, val |-> def]

Absent == [given |-> FALSE, digits |-> FALSE, val |-> 0]
Word == [given |-> TRUE, digits |-> FALSE, val |-> 0]
Number(n) == [given |-> TRUE, digits |-> TRUE, val |-> n]

PageParams == {Absent, Word} \cup {Number(n) : n \in {0, 2, MaxInt}}
LimitParams == {Absent, Word} \cup {Number(n) : n \in {0, 1, 101}}

\* the query of GET /receipts
Queries ==
    {q \in [page : PageParams, limit : LimitParams,
             merchant : {"", "Acme"}, startDate : {NoDate, 2},
             endDate : {NoDate, 1}] :
        q.startDate = NoDate \/ q.endDate = NoDate}

NoFilter ==
    [Page |-> 0, Limit |-> 0, Merchant |-> "", StartDate |-> NoDate,
     EndDate |-> NoDate]

\* parseReceiptFilter
parseReceiptFilter(q) ==
    LET page == Atoi(DefaultQuery(q.page, 1))
        limit == Atoi(DefaultQuery(q.limit, 10))
    IN IF page.err \/ page.val < 1 THEN [err |-> TRUE, filter |-> NoFilter]
       ELSE IF limit.err \/ limit.val < 1
          THEN [err |-> TRUE, filter |-> NoFilter]
       ELSE [err |-> FALSE,
             filter |-> [Page |-> page.val,
                         Limit |-> IF limit.val > 100 THEN 100
                                   ELSE limit.val,
                         Merchant |-> q.merchant,
                         StartDate |-> q.startDate,
                         EndDate |-> q.endDate]]

\* the receipt passes the date and merchant filters
Matches(r, filter) ==
    /\ ~(filter.StartDate # NoDate /\ r.Date < filter.StartDate)
    /\ ~(filter.EndDate # NoDate /\ r.Date > filter.EndDate)
    /\ ~(filter.Merchant # "" /\ r.Merchant # filter.Merchant)

\* the orders in which a range over the map may visit its keys
Orders(cache) ==
    {o \in [1..Cardinality(DOMAIN cache) -> DOMAIN cache] :
        \A i, j \in DOMAIN o : i # j => o[i] # o[j]}

NoPagination ==
    [TotalItems |-> 0, TotalPages |-> 0, CurrentPage |-> 0, Limit |-> 0]

\* variant: the number of pages is rounded down
ListReceipts_Floor(cache, order, f) ==
    LET page == IF f.Page <= 0 THEN 1 ELSE f.Page
        limit == IF f.Limit <= 0 THEN 10
                 ELSE IF f.Limit > 100 THEN 100 ELSE f.Limit
        receipts == [i \in DOMAIN order |-> cache[order[i]]]
        filteredReceipts == SelectSeq(receipts, LAMBDA r : Matches(r, f))
        totalItems == Len(filteredReceipts)
        totalPages == totalItems \div limit
        start == ToInt((page - 1) * limit)
        end0 == ToInt(start + limit)
        end1 == IF end0 > totalItems THEN totalItems ELSE end0
        startIdx == IF start >= totalItems THEN 0 ELSE start
        endIdx == IF start >= totalItems THEN 0 ELSE end1
    IN IF startIdx < endIdx /\ startIdx < 0
          THEN [panic |-> TRUE, data |-> <<>>, pagination |-> NoPagination]
       ELSE [panic |-> FALSE,
             data |-> IF startIdx < endIdx
                         THEN SubSeq(filteredReceipts, startIdx + 1, endIdx)
                         ELSE <<>>,
             pagination |-> [TotalItems |-> totalItems,
                             TotalPages |-> totalPages,
                             CurrentPage |-> page,
                             Limit |-> limit]]

\* SupabaseRepository.ListReceipts past the context check; the slice
\* expression panics on a negative index
ListReceipts(cache, order, f) ==
    LET page == IF f.Page <= 0 THEN 1 ELSE f.Page
        limit == IF f.Limit <= 0 THEN 10
                 ELSE IF f.Limit > 100 THEN 100 ELSE f.Limit
        receipts == [i \in DOMAIN order |-> cache[order[i]]]
        filteredReceipts == SelectSeq(receipts, LAMBDA r : Matches(r, f))
        totalItems == Len(filteredReceipts)
        totalPages == ToInt(totalItems + limit - 1) \div limit
        start == ToInt((page - 1) * limit)
        end0 == ToInt(start + limit)
        end1 == IF end0 > totalItems THEN totalItems ELSE end0
        startIdx == IF start >= totalItems THEN 0 ELSE start
        endIdx == IF start >= totalItems THEN 0 ELSE end1
    IN IF startIdx < endIdx /\ startIdx < 0
          THEN [panic |-> TRUE, data |-> <<>>, pagination |-> NoPagination]
       ELSE [panic |-> FALSE,
             data |-> IF startIdx < endIdx
                         THEN SubSeq(filteredReceipts, startIdx + 1, endIdx)
                         ELSE <<>>,
             pagination |-> [TotalItems |-> totalItems,
                             TotalPages |-> totalPages,
                             CurrentPage |-> page,
                             Limit |-> limit]]

\* an HTTP response: the operation, the ID and filter it was asked with,
\* whether its context was done, the status, the error of the repository
Answer(op, id, done, status, err) ==
    [op |-> op, id |-> id, done |-> done, status |-> status, err |-> err,
     filter |-> NoFilter, data |-> <<>>, pagination |-> NoPagination]

\* the status the handlers answer an error of the service with
StatusOfError(err) == IF err = "not found" THEN 404 ELSE 500

\* no receipts request was made
RepoIdle ==
    /\ receiptCache = <<>>
    /\ deleted = {}
    /\ answer = Answer("none", "", FALSE, 0, "none")

\* NewSupabaseRepository: the cache starts empty
RepoInit == RepoIdle

\* POST /receipts
CreateReceipt ==
    \E input \in ReceiptInputs, done \in BOOLEAN, t \in Instants :
        /\ IF input.kind = "bad_json" \/ input.Merchant = ""
              THEN /\ answer' = Answer("create_receipt", input.ID, done, 400,
                                       "invalid input")
                   /\ UNCHANGED <<receiptCache, deleted>>
              ELSE IF done
              THEN /\ answer' = Answer("create_receipt", input.ID, done, 500,
                                       "context canceled")
                   /\ UNCHANGED <<receiptCache, deleted>>
              ELSE LET id == IF input.ID = "" THEN GeneratedID(t)
                             ELSE input.ID
                   IN /\ receiptCache' =
                            [k \in DOMAIN receiptCache \cup {id} |->
                                IF k = id THEN Receipt(id, input)
                                ELSE receiptCache[k]]
                      /\ deleted' = deleted \ {id}
                      /\ answer' = Answer("create_receipt", id, done, 201,
                                          "none")
        /\ UNCHANGED <<poolVars, parseVars, classifyVars, scanVars,
                     aiVars, ocrVars>>

\* GET /receipts
GetReceipts ==
    \E q \in Queries, done \in BOOLEAN, order \in Orders(receiptCache) :
        LET parsedFilter == parseReceiptFilter(q)
        IN /\ IF parsedFilter.err
                 THEN answer' = Answer("list_receipts", "", done, 400,
                                       "invalid query")
                 ELSE IF done
                 THEN answer' = [Answer("list_receipts", "", done, 500,
                                        "context canceled")
                                    EXCEPT !.filter = parsedFilter.filter]
                 ELSE \E r \in {ListReceipts(receiptCache, order,
                                             parsedFilter.filter)} :
                         IF r.panic
                            THEN answer' =
                                    [Answer("list_receipts", "", done, 500,
                                            "panic")
                                        EXCEPT !.filter = parsedFilter.filter]
                            ELSE answer' =
                                    [Answer("list_receipts", "", done, 200,
                                            "none")
                                        EXCEPT !.filter = parsedFilter.filter,
                                               !.data = r.data,
                                               !.pagination = r.pagination]
           /\ UNCHANGED <<receiptCache, deleted>>
           /\ UNCHANGED <<poolVars, parseVars, classifyVars, scanVars,
                     aiVars, ocrVars>>

\* the error of a repository operation on one receipt, "none" without error
LookupError(cache, id, done) ==
    IF done THEN "context canceled"
    ELSE IF id \notin DOMAIN cache THEN "not found"
    ELSE "none"

\* the answer of a handler that takes the receipt ID from the path
AnswerByID(op, id, done, err, okStatus) ==
    IF id = "" THEN Answer(op, id, done, 400, "id required")
    ELSE IF err # "none" THEN Answer(op, id, done, StatusOfError(err), err)
    ELSE Answer(op, id, done, okStatus, "none")

\* GET /receipts/{receiptId}
GetReceiptByID ==
    \E id \in ReceiptIDs \cup {""}, done \in BOOLEAN :
        /\ answer' = AnswerByID("get_receipt", id, done,
                                LookupError(receiptCache, id, done), 200)
        /\ UNCHANGED <<receiptCache, deleted>>
        /\ UNCHANGED <<poolVars, parseVars, classifyVars, scanVars,
                     aiVars, ocrVars>>

\* variant: an update of an ID that is not stored stores the receipt
UpdateReceipt_Upsert ==
    \E id \in ReceiptIDs \cup {""}, input \in ReceiptInputs,
       done \in BOOLEAN :
        /\ IF id = ""
              THEN /\ answer' = Answer("update_receipt", id, done, 400,
                                       "id required")
                   /\ UNCHANGED receiptCache
              ELSE IF input.kind = "bad_json" \/ input.Merchant = ""
              THEN /\ answer' = Answer("update_receipt", id, done, 400,
                                       "invalid input")
                   /\ UNCHANGED receiptCache
              ELSE LET err == LookupError(receiptCache, id, done)
                   IN /\ answer' = AnswerByID("update_receipt", id, done,
                                              err, 200)
                      /\ receiptCache' =
                            IF err \in {"none", "not found"}
                               THEN [k \in DOMAIN receiptCache \cup {id} |->
                                        IF k = id THEN Receipt(id, input)
                                        ELSE receiptCache[k]]
                               ELSE receiptCache
        /\ UNCHANGED deleted
        /\ UNCHANGED <<poolVars, parseVars, classifyVars, scanVars,
                     aiVars, ocrVars>>

\* PUT /receipts/{receiptId}
UpdateReceipt ==
    \E id \in ReceiptIDs \cup {""}, input \in ReceiptInputs,
       done \in BOOLEAN :
        /\ IF id = ""
              THEN /\ answer' = Answer("update_receipt", id, done, 400,
                                       "id required")
                   /\ UNCHANGED receiptCache
              ELSE IF input.kind = "bad_json" \/ input.Merchant = ""
              THEN /\ answer' = Answer("update_receipt", id, done, 400,
                                       "invalid input")
                   /\ UNCHANGED receiptCache
              ELSE LET err == LookupError(receiptCache, id, done)
                   IN /\ answer' = AnswerByID("update_receipt", id, done,
                                              err, 200)
                      /\ receiptCache' =
                            IF err = "none"
                               THEN [receiptCache EXCEPT
                                        ![id] = Receipt(id, input)]
                               ELSE receiptCache
        /\ UNCHANGED deleted
        /\ UNCHANGED <<poolVars, parseVars, classifyVars, scanVars,
                     aiVars, ocrVars>>

\* variant: the receipt is reported deleted and stays in the cache
DeleteReceipt_Keep ==
    \E id \in ReceiptIDs \cup {""}, done \in BOOLEAN :
        LET err == LookupError(receiptCache, id, done)
        IN /\ answer' = AnswerByID("delete_receipt", id, done, err, 204)
           /\ receiptCache' = receiptCache
           /\ deleted' = IF id # "" /\ err = "none" THEN deleted \cup {id}
                         ELSE deleted
           /\ UNCHANGED <<poolVars, parseVars, classifyVars, scanVars,
                     aiVars, ocrVars>>

\* DELETE /receipts/{receiptId}
DeleteReceipt ==
    \E id \in ReceiptIDs \cup {""}, done \in BOOLEAN :
        LET err == LookupError(receiptCache, id, done)
        IN /\ answer' = AnswerByID("delete_receipt", id, done, err, 204)
           /\ receiptCache' =
                 IF id # "" /\ err = "none"
                    THEN [k \in DOMAIN receiptCache \ {id} |->
                             receiptCache[k]]
                    ELSE receiptCache
           /\ deleted' = IF id # "" /\ err = "none" THEN deleted \cup {id}
                         ELSE deleted
           /\ UNCHANGED <<poolVars, parseVars, classifyVars, scanVars,
                     aiVars, ocrVars>>

\* GET /receipts/{receiptId}/items
GetReceiptItems ==
    \E id \in ReceiptIDs \cup {""}, done \in BOOLEAN :
        /\ answer' = AnswerByID("get_receipt_items", id, done,
                                LookupError(receiptCache, id, done), 200)
        /\ UNCHANGED <<receiptCache, deleted>>
        /\ UNCHANGED <<poolVars, parseVars, classifyVars, scanVars,
                     aiVars, ocrVars>>

ReceiptsAPI ==
    \/ CreateReceipt
    \/ GetReceipts
    \/ GetReceiptByID
    \/ UpdateReceipt
    \/ DeleteReceipt
    \/ GetReceiptItems

\* ------------------------------------------------------------------------
\* AIProcessorService and OpenRouterService: ProcessInvoiceBatch, Shutdown
\* ------------------------------------------------------------------------
NRequests == 2

\* requests[idx]; request idx carries the file idx
Requests == 1..NRequests

\* the services with ProcessInvoiceBatch
BatchServices == {"AIProcessorService", "OpenRouterService"}

\* the invoice numbers an extraction yields
InvoiceNumbers == {"", "INV-7"}

\* the domain invoice extracted from a file
Invoice(file, number) == [File |-> file, InvoiceNumber |-> number]

NoInvoice == Invoice(0, "")

\* a nil *InvoiceProcessingResponse
NilResponse == [nil |-> TRUE, Error |-> "", Invoice |-> NoInvoice]

\* &InvoiceProcessingResponse{Error: error, Invoice: invoice}
Response(error, invoice) ==
    [nil |-> FALSE, Error |-> error, Invoice |-> invoice]

\* the error ProcessInvoice returns when ctx.Done() was selected
AcquireError(s) ==
    IF s = "AIProcessorService" THEN "acquire_worker: context canceled"
                                ELSE "context canceled"

\* a goroutine of the batch that was not started
NoCall ==
    [pc |-> "unborn", resp |-> NilResponse, err |-> "pending",
     image |-> "none", extracted |-> NoInvoice, failed |-> FALSE,
     stored |-> "none", acquired |-> FALSE, waited |-> FALSE]

\* positions of ProcessInvoice between the send on the queue and the
\* deferred receive
PastAcquisition == {"acquired", "extract", "store", "release"}

Parked == {i \in Requests : call[i].pc = "parked"}

\* no batch runs
AIIdle ==
    /\ workerQueue = 0
    /\ queueCap = DefaultWorkers
    /\ queueClosed = FALSE
    /\ repository = FALSE
    /\ batchCtx = FALSE
    /\ batch = "idle"
    /\ wg = 0
    /\ call = [i \in Requests |-> NoCall]
    /\ responses = [i \in Requests |-> NilResponse]
    /\ batchResult = [returned |-> FALSE, err |-> "none"]
    /\ aiPanic = "none"

\* the constructors, and ProcessInvoiceBatch up to its loop:
\* responses := make([]*InvoiceProcessingResponse, len(requests))
AIInit ==
    /\ workerQueue = 0
    /\ queueCap = NewService(svc, maxWorkers)
    /\ queueClosed = FALSE
    /\ repository \in (IF svc = "AIProcessorService" THEN BOOLEAN
                                                    ELSE {FALSE})
    /\ batchCtx = FALSE
    /\ batch = "loop"
    /\ wg = 0
    /\ call = [i \in Requests |-> NoCall]
    /\ responses = [i \in Requests |-> NilResponse]
    /\ batchResult = [returned |-> FALSE, err |-> "none"]
    /\ aiPanic = "none"

\* a panic in a goroutine of the batch ends the process
Running == aiPanic = "none"

\* wg.Add(1); go func(idx, req) {...}(i, request)
Spawn(i) ==
    /\ Running
    /\ batch = "loop"
    /\ call[i].pc = "unborn"
    /\ \A j \in Requests : j < i => call[j].pc # "unborn"
    /\ wg' = wg + 1
    /\ call' = [call EXCEPT ![i].pc = "select"]
    /\ UNCHANGED <<workerQueue, queueCap, queueClosed, repository, batchCtx,
                   batch, responses, batchResult, aiPanic>>
    /\ UNCHANGED <<poolVars, parseVars, classifyVars, scanVars, repoVars,
                   ocrVars>>

\* case s.workerQueue <- struct{}{}: the queue has room
AcquireSlot(i) ==
    /\ Running
    /\ call[i].pc = "select"
    /\ ~queueClosed
    /\ workerQueue < queueCap
    /\ workerQueue' = workerQueue + 1
    /\ call' = [call EXCEPT ![i].pc = "acquired", ![i].acquired = TRUE]
    /\ UNCHANGED <<queueCap, queueClosed, repository, batchCtx, batch, wg,
                   responses, batchResult, aiPanic>>
    /\ UNCHANGED <<poolVars, parseVars, classifyVars, scanVars, repoVars,
                   ocrVars>>

\* the select finds no case ready: the goroutine parks
WaitForSlot(i) ==
    /\ Running
    /\ call[i].pc = "select"
    /\ ~queueClosed
    /\ workerQueue >= queueCap
    /\ ~batchCtx
    /\ call' = [call EXCEPT ![i].pc = "parked", ![i].waited = TRUE]
    /\ UNCHANGED <<workerQueue, queueCap, queueClosed, repository, batchCtx,
                   batch, wg, responses, batchResult, aiPanic>>
    /\ UNCHANGED <<poolVars, parseVars, classifyVars, scanVars, repoVars,
                   ocrVars>>

\* case s.workerQueue <- struct{}{} on the closed queue: the send panics
SendOnClosedQueue(i) ==
    /\ Running
    /\ call[i].pc = "select"
    /\ queueClosed
    /\ aiPanic' = "send on closed channel"
    /\ UNCHANGED <<workerQueue, queueCap, queueClosed, repository, batchCtx,
                   batch, wg, call, responses, batchResult>>
    /\ UNCHANGED <<poolVars, parseVars, classifyVars, scanVars, repoVars,
                   ocrVars>>

\* case <-ctx.Done(): return nil, the error of the service
AcquireCancelled(i) ==
    /\ Running
    /\ call[i].pc \in {"select", "parked"}
    /\ batchCtx
    /\ call' = [call EXCEPT ![i].pc = "returned",
                            ![i].resp = NilResponse,
                            ![i].err = AcquireError(svc)]
    /\ UNCHANGED <<workerQueue, queueCap, queueClosed, repository, batchCtx,
                   batch, wg, responses, batchResult, aiPanic>>
    /\ UNCHANGED <<poolVars, parseVars, classifyVars, scanVars, repoVars,
                   ocrVars>>

\* if s.repository != nil { s.repository.StoreImage(ctx, request.File) }:
\* an error is logged
StoreImage(i) ==
    /\ Running
    /\ call[i].pc = "acquired"
    /\ \E outcome \in (IF repository THEN {"ok", "error"} ELSE {"none"}) :
          call' = [call EXCEPT ![i].pc = "extract", ![i].image = outcome]
    /\ UNCHANGED <<workerQueue, queueCap, queueClosed, repository, batchCtx,
                   batch, wg, responses, batchResult, aiPanic>>
    /\ UNCHANGED <<poolVars, parseVars, classifyVars, scanVars, repoVars,
                   ocrVars>>

\* domainInvoice, err := s.client.ExtractInvoiceData(request.File)
\* if err != nil { response.Error = "AI extraction failed: ..."; return }
ExtractInvoice(i) ==
    /\ Running
    /\ call[i].pc = "extract"
    /\ \/ call' = [call EXCEPT ![i].pc = "release",
                               ![i].failed = TRUE,
                               ![i].resp = Response("AI extraction failed",
                                                    NoInvoice),
                               ![i].err = "nil"]
       \/ \E number \in InvoiceNumbers :
             call' = [call EXCEPT ![i].pc = "store",
                                  ![i].extracted = Invoice(i, number)]
    /\ UNCHANGED <<workerQueue, queueCap, queueClosed, repository, batchCtx,
                   batch, wg, responses, batchResult, aiPanic>>
    /\ UNCHANGED <<poolVars, parseVars, classifyVars, scanVars, repoVars,
                   ocrVars>>

\* the invoice is handed to StoreInvoice
StoreInvoice_Always(i) ==
    repository

\* if s.repository != nil && domainInvoice.InvoiceNumber != ""
HandsToRepository(i) ==
    repository /\ call[i].extracted.InvoiceNumber # ""

\* s.repository.StoreInvoice(ctx, domainInvoice): an error is logged;
\* response.Invoice = invoiceDTO; return response, nil
StoreInvoice(i) ==
    /\ Running
    /\ call[i].pc = "store"
    /\ \E outcome \in (IF HandsToRepository(i) THEN {"ok", "error"}
                                              ELSE {"none"}) :
          call' = [call EXCEPT ![i].pc = "release",
                               ![i].stored = outcome,
                               ![i].resp = Response("", call[i].extracted),
                               ![i].err = "nil"]
    /\ UNCHANGED <<workerQueue, queueCap, queueClosed, repository, batchCtx,
                   batch, wg, responses, batchResult, aiPanic>>
    /\ UNCHANGED <<poolVars, parseVars, classifyVars, scanVars, repoVars,
                   ocrVars>>

\* defer func() { <-s.workerQueue }(): a parked sender takes the slot over,
\* otherwise the queue shrinks; a receive on the closed queue returns
ReleaseSlot(i) ==
    /\ Running
    /\ call[i].pc = "release"
    /\ IF Parked # {}
          THEN \E j \in Parked :
                  /\ call' = [call EXCEPT ![i].pc = "returned",
                                          ![j].pc = "acquired",
                                          ![j].acquired = TRUE]
                  /\ UNCHANGED workerQueue
          ELSE /\ call' = [call EXCEPT ![i].pc = "returned"]
               /\ workerQueue' = IF workerQueue > 0 THEN workerQueue - 1
                                                    ELSE 0
    /\ UNCHANGED <<queueCap, queueClosed, repository, batchCtx, batch, wg,
                   responses, batchResult, aiPanic>>
    /\ UNCHANGED <<poolVars, parseVars, classifyVars, scanVars, repoVars,
                   ocrVars>>

\* the response the goroutine of the batch keeps for what ProcessInvoice
\* returned: if err != nil { resp = &InvoiceProcessingResponse{Error: ...} }
Collected(c) ==
    IF c.err # "nil" THEN Response("Failed to process invoice", NoInvoice)
                     ELSE c.resp

\* responses[idx] = resp, and the deferred wg.Done()
CollectResponse(i) ==
    /\ Running
    /\ call[i].pc = "returned"
    /\ responses' = [responses EXCEPT ![i] = Collected(call[i])]
    /\ wg' = wg - 1
    /\ call' = [call EXCEPT ![i].pc = "done"]
    /\ UNCHANGED <<workerQueue, queueCap, queueClosed, repository, batchCtx,
                   batch, batchResult, aiPanic>>
    /\ UNCHANGED <<poolVars, parseVars, classifyVars, scanVars, repoVars,
                   ocrVars>>

\* ProcessInvoice, called by the goroutine of request i
ProcessInvoice(i) ==
    \/ AcquireSlot(i)
    \/ WaitForSlot(i)
    \/ SendOnClosedQueue(i)
    \/ AcquireCancelled(i)
    \/ StoreImage(i)
    \/ ExtractInvoice(i)
    \/ StoreInvoice(i)
    \/ ReleaseSlot(i)

\* wg.Wait() may return
WaitGroupWait_NoWait == TRUE

WaitGroupWait == wg = 0

\* the loop is over, wg.Wait() returned: return responses, nil
ReturnResponses ==
    /\ Running
    /\ batch = "loop"
    /\ \A i \in Requests : call[i].pc # "unborn"
    /\ WaitGroupWait
    /\ batch' = "returned"
    /\ batchResult' = [returned |-> TRUE, err |-> "nil"]
    /\ UNCHANGED <<workerQueue, queueCap, queueClosed, repository, batchCtx,
                   wg, call, responses, aiPanic>>
    /\ UNCHANGED <<poolVars, parseVars, classifyVars, scanVars, repoVars,
                   ocrVars>>

\* the caller cancels the context of the batch
CancelBatch ==
    /\ Running
    /\ batch = "loop"
    /\ ~batchCtx
    /\ batchCtx' = TRUE
    /\ UNCHANGED <<workerQueue, queueCap, queueClosed, repository, batch, wg,
                   call, responses, batchResult, aiPanic>>
    /\ UNCHANGED <<poolVars, parseVars, classifyVars, scanVars, repoVars,
                   ocrVars>>

\* AIProcessorService.Shutdown: close(s.workerQueue). The senders parked on
\* the queue wake up and panic; closing the closed queue panics
Shutdown ==
    /\ Running
    /\ svc = "AIProcessorService"
    /\ queueClosed' = TRUE
    /\ aiPanic' = IF queueClosed THEN "close of closed channel"
                  ELSE IF Parked # {} THEN "send on closed channel"
                  ELSE "none"
    /\ UNCHANGED <<workerQueue, queueCap, repository, batchCtx, batch, wg,
                   call, responses, batchResult>>
    /\ UNCHANGED <<poolVars, parseVars, classifyVars, scanVars, repoVars,
                   ocrVars>>

ProcessInvoiceBatch ==
    \/ \E i \in Requests : Spawn(i)
    \/ \E i \in Requests : ProcessInvoice(i)
    \/ \E i \in Requests : CollectResponse(i)
    \/ ReturnResponses

\* ------------------------------------------------------------------------
\* OCRService: the worker pool, ProcessInvoice and Shutdown
\* ------------------------------------------------------------------------
NTasks == 2

\* the ProcessInvoice calls; call t makes task t
Tasks == 1..NTasks

\* if maxWorkers <= 0 { maxWorkers = 5 }
NewOCRService(mw) == IF mw <= 0 THEN DefaultWorkers ELSE mw

\* make(chan *ocrTask, maxWorkers*2)
QueueSize(mw) == NewOCRService(mw) * 2

\* make(chan *model.OCRResponse, 1)
ResponseChanSize == 1

\* a call that made its task and response channel and is at the first select
NoTask ==
    [pc |-> "send", ctx |-> FALSE, accepted |-> FALSE, chan |-> <<>>,
     delivered |-> 0, sent |-> "none", ocr |-> 0, atClose |-> FALSE,
     resp |-> "none", err |-> "pending"]

\* a worker in "for task := range s.processingQueue", holding no task
IdleWorker == [pc |-> "range", task |-> 0]

Workers == DOMAIN ocrWorkers

\* the workers waiting in the range are interchangeable: the one with the
\* lowest number stands for whichever of them the runtime wakes
FirstWaiting(w) ==
    /\ ocrWorkers[w].pc = "range"
    /\ \A v \in Workers : v < w => ocrWorkers[v].pc # "range"

\* no OCR service was constructed
OCRIdle ==
    /\ processingQueue = <<>>
    /\ ocrClosed = FALSE
    /\ ocrTasks = [t \in Tasks |-> NoTask]
    /\ ocrWorkers = <<>>
    /\ ocrShutdown = "idle"

\* NewOCRService and startWorkers: the workers run, the queue is empty
OCRInit ==
    /\ processingQueue = <<>>
    /\ ocrClosed = FALSE
    /\ ocrTasks = [t \in Tasks |-> NoTask]
    /\ ocrWorkers = [w \in 1..NewOCRService(maxWorkers) |-> IdleWorker]
    /\ ocrShutdown = "idle"

\* the file of the request is empty:
\* if len(request.File) == 0 { return nil, errors.New("empty file data") }
EmptyFile(t) ==
    /\ ocrTasks[t].pc = "send"
    /\ ~ocrTasks[t].ctx
    /\ ocrTasks' = [ocrTasks EXCEPT ![t].pc = "returned",
                                    ![t].err = "empty file data"]
    /\ UNCHANGED <<processingQueue, ocrClosed, ocrWorkers, ocrShutdown>>
    /\ UNCHANGED <<poolVars, parseVars, classifyVars, scanVars, repoVars,
                   aiVars>>

\* case s.processingQueue <- task: the queue has room; while it is full the
\* caller waits in the select
Enqueue(t) ==
    /\ ocrTasks[t].pc = "send"
    /\ ~ocrClosed
    /\ Len(processingQueue) < QueueSize(maxWorkers)
    /\ processingQueue' = Append(processingQueue, t)
    /\ ocrTasks' = [ocrTasks EXCEPT ![t].pc = "await", ![t].accepted = TRUE]
    /\ UNCHANGED <<ocrClosed, ocrWorkers, ocrShutdown>>
    /\ UNCHANGED <<poolVars, parseVars, classifyVars, scanVars, repoVars,
                   aiVars>>

\* case s.processingQueue <- task on the closed queue: the send panics
SendOnClosed(t) ==
    /\ ocrTasks[t].pc = "send"
    /\ ocrClosed
    /\ ocrTasks' = [ocrTasks EXCEPT ![t].pc = "panicked"]
    /\ UNCHANGED <<processingQueue, ocrClosed, ocrWorkers, ocrShutdown>>
    /\ UNCHANGED <<poolVars, parseVars, classifyVars, scanVars, repoVars,
                   aiVars>>

\* case <-ctx.Done(): return nil, ctx.Err(), in either select
ReturnCtxErr(t) ==
    /\ ocrTasks[t].pc \in {"send", "await"}
    /\ ocrTasks[t].ctx
    /\ ocrTasks' = [ocrTasks EXCEPT ![t].pc = "returned",
                                    ![t].err = "context canceled"]
    /\ UNCHANGED <<processingQueue, ocrClosed, ocrWorkers, ocrShutdown>>
    /\ UNCHANGED <<poolVars, parseVars, classifyVars, scanVars, repoVars,
                   aiVars>>

\* case response := <-responseChan: return response, nil
ReceiveResponse(t) ==
    /\ ocrTasks[t].pc = "await"
    /\ ocrTasks[t].chan # <<>>
    /\ ocrTasks' = [ocrTasks EXCEPT ![t].pc = "returned",
                                    ![t].resp = Head(ocrTasks[t].chan),
                                    ![t].err = "nil",
                                    ![t].chan = Tail(ocrTasks[t].chan)]
    /\ UNCHANGED <<processingQueue, ocrClosed, ocrWorkers, ocrShutdown>>
    /\ UNCHANGED <<poolVars, parseVars, classifyVars, scanVars, repoVars,
                   aiVars>>

\* the context of the call is cancelled
CancelTask(t) ==
    /\ ocrTasks[t].pc \in {"send", "await"}
    /\ ~ocrTasks[t].ctx
    /\ ocrTasks' = [ocrTasks EXCEPT ![t].ctx = TRUE]
    /\ UNCHANGED <<processingQueue, ocrClosed, ocrWorkers, ocrShutdown>>
    /\ UNCHANGED <<poolVars, parseVars, classifyVars, scanVars, repoVars,
                   aiVars>>

\* OCRService.ProcessInvoice, call t
OCRProcessInvoice(t) ==
    \/ EmptyFile(t)
    \/ Enqueue(t)
    \/ SendOnClosed(t)
    \/ ReturnCtxErr(t)
    \/ ReceiveResponse(t)

\* for task := range s.processingQueue: the worker takes the first task
Dequeue(w) ==
    /\ FirstWaiting(w)
    /\ processingQueue # <<>>
    /\ ocrWorkers' = [ocrWorkers EXCEPT ![w].pc = "check",
                                        ![w].task = Head(processingQueue)]
    /\ processingQueue' = Tail(processingQueue)
    /\ UNCHANGED <<ocrTasks, ocrClosed, ocrShutdown>>
    /\ UNCHANGED <<poolVars, parseVars, classifyVars, scanVars, repoVars,
                   aiVars>>

\* the worker sends on task.response; the send waits for room in the channel
Deliver(tasks, t, response) ==
    [tasks EXCEPT ![t].chan = Append(tasks[t].chan, response),
                  ![t].sent = response,
                  ![t].delivered = tasks[t].delivered + 1]

\* the worker sees the context of the task as live
CtxLive_Always(t) == TRUE

\* task.ctx.Err() == nil
CtxLive(t) == ~ocrTasks[t].ctx

\* if task.ctx.Err() != nil { task.response <- "request canceled"; continue }
CheckCtx(w) ==
    /\ ocrWorkers[w].pc = "check"
    /\ LET t == ocrWorkers[w].task IN
          IF CtxLive(t)
             THEN /\ ocrWorkers' = [ocrWorkers EXCEPT ![w].pc = "ocr"]
                  /\ UNCHANGED ocrTasks
             ELSE /\ Len(ocrTasks[t].chan) < ResponseChanSize
                  /\ ocrTasks' = Deliver(ocrTasks, t, "request canceled")
                  /\ ocrWorkers' = [ocrWorkers EXCEPT ![w] = IdleWorker]
    /\ UNCHANGED <<processingQueue, ocrClosed, ocrShutdown>>
    /\ UNCHANGED <<poolVars, parseVars, classifyVars, scanVars, repoVars,
                   aiVars>>

\* invoice, err := s.processOCR(task.request.File), and the response for it
ProcessOCR(w) ==
    /\ ocrWorkers[w].pc = "ocr"
    /\ LET t == ocrWorkers[w].task IN
          /\ Len(ocrTasks[t].chan) < ResponseChanSize
          /\ \E response \in {"ocr error", "invoice"} :
                ocrTasks' = [Deliver(ocrTasks, t, response)
                               EXCEPT ![t].ocr = ocrTasks[t].ocr + 1]
    /\ ocrWorkers' = [ocrWorkers EXCEPT ![w] = IdleWorker]
    /\ UNCHANGED <<processingQueue, ocrClosed, ocrShutdown>>
    /\ UNCHANGED <<poolVars, parseVars, classifyVars, scanVars, repoVars,
                   aiVars>>

\* the range ends: the queue is closed and empty; the deferred s.wg.Done()
ExitWorker(w) ==
    /\ FirstWaiting(w)
    /\ processingQueue = <<>>
    /\ ocrClosed
    /\ ocrWorkers' = [ocrWorkers EXCEPT ![w].pc = "exited"]
    /\ UNCHANGED <<processingQueue, ocrClosed, ocrTasks, ocrShutdown>>
    /\ UNCHANGED <<poolVars, parseVars, classifyVars, scanVars, repoVars,
                   aiVars>>

\* OCRService.worker
worker(w) ==
    \/ Dequeue(w)
    \/ CheckCtx(w)
    \/ ProcessOCR(w)
    \/ ExitWorker(w)

\* close(s.processingQueue); atClose marks the tasks that were accepted and
\* not answered yet
CloseQueue ==
    /\ ocrShutdown = "idle"
    /\ ocrClosed' = TRUE
    /\ ocrTasks' = [t \in Tasks |->
                      [ocrTasks[t] EXCEPT !.atClose = ocrTasks[t].accepted
                                            /\ ocrTasks[t].delivered = 0]]
    /\ ocrShutdown' = "wait"
    /\ UNCHANGED <<processingQueue, ocrWorkers>>
    /\ UNCHANGED <<poolVars, parseVars, classifyVars, scanVars, repoVars,
                   aiVars>>

\* s.wg.Wait() may return
WorkersDone_NoWait == TRUE

\* the counter of s.wg is zero: every worker ran its wg.Done()
WorkersDone == \A w \in Workers : ocrWorkers[w].pc = "exited"

\* s.wg.Wait() returns, and Shutdown with it
ReturnShutdown ==
    /\ ocrShutdown = "wait"
    /\ WorkersDone
    /\ ocrShutdown' = "returned"
    /\ UNCHANGED <<processingQueue, ocrClosed, ocrTasks, ocrWorkers>>
    /\ UNCHANGED <<poolVars, parseVars, classifyVars, scanVars, repoVars,
                   aiVars>>

\* OCRService.Shutdown
OCRShutdown ==
    \/ CloseQueue
    \/ ReturnShutdown

Next ==
    \/ \E c \in Calls : ScanReceipt(c)
    \/ \E c \in Calls : CancelCtx(c)

Init ==
    /\ PoolInit
    /\ ParseIdle
    /\ ClassifyIdle
    /\ ScanIdle
    /\ RepoIdle
    /\ AIIdle
    /\ OCRIdle

Spec == Init /\ [][Next]_vars

\* one response is parsed, on a service that stays as it was constructed
InitParse ==
    /\ svc = "ReceiptService"
    /\ maxWorkers = MaxWorkersHi
    /\ PoolInit
    /\ ParseInit
    /\ ClassifyIdle
    /\ ScanIdle
    /\ RepoIdle
    /\ AIIdle
    /\ OCRIdle

NextParse == parseOpenRouterResponse

SpecParse == InitParse /\ [][NextParse]_vars

\* one line item is normalized, on a service that stays as it was
\* constructed
InitClassify ==
    /\ svc = "ReceiptService"
    /\ maxWorkers = MaxWorkersHi
    /\ PoolInit
    /\ ParseIdle
    /\ ClassifyInit
    /\ ScanIdle
    /\ RepoIdle
    /\ AIIdle
    /\ OCRIdle

NextClassify == NormalizeItem

SpecClassify == InitClassify /\ [][NextClassify]_vars

\* one scan request is handled, by a ReceiptService
InitScan ==
    /\ svc = "ReceiptService"
    /\ maxWorkers = MaxWorkersHi
    /\ PoolInit
    /\ ParseIdle
    /\ ClassifyIdle
    /\ ScanInit
    /\ RepoIdle
    /\ AIIdle
    /\ OCRIdle

NextScan == HandleScanRequest

SpecScan == InitScan /\ [][NextScan]_vars

\* the scheduler runs every call; the model call and the repository return
FairSpec == Spec /\ \A c \in Calls : WF_vars(ScanReceipt(c))

\* requests to the receipts API, on a service that stays as it was
\* constructed
InitRepo ==
    /\ svc = "ReceiptService"
    /\ maxWorkers = MaxWorkersHi
    /\ PoolInit
    /\ ParseIdle
    /\ ClassifyIdle
    /\ ScanIdle
    /\ RepoInit
    /\ AIIdle
    /\ OCRIdle

NextRepo == ReceiptsAPI

SpecRepo == InitRepo /\ [][NextRepo]_vars

\* a batch runs on an AIProcessorService or an OpenRouterService, while the
\* server shuts the processor down
InitAI ==
    /\ svc \in BatchServices
    /\ maxWorkers \in MaxWorkersInputs
    /\ PoolInit
    /\ ParseIdle
    /\ ClassifyIdle
    /\ ScanIdle
    /\ RepoIdle
    /\ AIInit
    /\ OCRIdle

NextAI ==
    \/ ProcessInvoiceBatch
    \/ CancelBatch
    \/ Shutdown

SpecAI == InitAI /\ [][NextAI]_vars

\* calls of OCRService.ProcessInvoice, the workers and one Shutdown
InitOCR ==
    /\ svc = "ReceiptService"
    /\ maxWorkers \in MaxWorkersInputs
    /\ PoolInit
    /\ ParseIdle
    /\ ClassifyIdle
    /\ ScanIdle
    /\ RepoIdle
    /\ AIIdle
    /\ OCRInit

NextOCR ==
    \/ \E t \in Tasks : OCRProcessInvoice(t)
    \/ \E t \in Tasks : CancelTask(t)
    \/ \E w \in Workers : worker(w)
    \/ OCRShutdown

SpecOCR == InitOCR /\ [][NextOCR]_vars

\* the scheduler runs every worker and Shutdown; every OCR run terminates
FairOCR ==
    /\ SpecOCR
    /\ WF_vars(\E w \in Workers : worker(w))
    /\ WF_vars(OCRShutdown)

\* ------------------------------------------------------------------------
\* Properties of the admission gate
\* ------------------------------------------------------------------------
HoldingCalls == {c \in Calls : pc[c] \in Holding}

\* C1: at most poolCap calls are past slot acquisition and not yet returned,
\* and a call at the select is admitted only into a free slot or into the
\* slot a holder releases in the same step
C1_AdmissionBound ==
    /\ [](Cardinality(HoldingCalls) <= poolCap /\ workerPool <= poolCap)
    /\ [][\A c \in Calls :
            (pc[c] \in {"Start", "Waiting"} /\ pc'[c] = "Admitted")
               => \/ Cardinality(HoldingCalls) < poolCap
                  \/ \E d \in HoldingCalls : pc'[d] \in Returned]_vars

\* poolCap calls are in the model call and one more call is parked
C1_Witness ==
    /\ poolCap >= 1
    /\ Cardinality({c \in Calls : pc[c] = "Running"}) = poolCap
    /\ \E c \in Calls : pc[c] = "Waiting"

\* C2: a call whose context is cancelled while it is parked waiting for a slot
\* returns the acquire_worker error wrapping the context error, is never
\* admitted and never invokes ExtractInvoiceData
C2_CancelWhileWaiting ==
    \A c \in Calls :
        cancelAt[c] = "Waiting"
           => /\ pc[c] \in {"Woken", "Cancelled"}
              /\ extractCalls[c] = 0
              /\ acquires[c] = 0
              /\ \A i \in 1..Len(hist[c]) : hist[c][i] \notin Holding
              /\ (pc[c] = "Cancelled" /\ svc = "ReceiptService")
                    => (result[c].err = "acquire_worker"
                        /\ result[c].cause = "context")

C2_Witness ==
    \E c \in Calls :
        /\ svc = "ReceiptService"
        /\ cancelAt[c] = "Waiting"
        /\ pc[c] = "Cancelled"
        /\ \E d \in Calls : pc[d] = "Completed"

\* C3: the occupied slots are exactly the admitted calls that have not
\* returned; a completed call acquired and released one slot, a cancelled
\* call none; no slot is held once every call has returned
C3_SlotAccounting ==
    /\ workerPool = Cardinality(HoldingCalls)
    /\ \A c \in Calls :
          /\ pc[c] \in Holding => (acquires[c] = 1 /\ releases[c] = 0)
          /\ pc[c] = "Completed" => (acquires[c] = 1 /\ releases[c] = 1)
          /\ pc[c] = "Cancelled" => (acquires[c] = 0 /\ releases[c] = 0)
    /\ (\A c \in Calls : pc[c] \in Returned) => workerPool = 0

C3_Witness ==
    /\ \A c \in Calls : pc[c] = "Completed"
    /\ \E c \in Calls : result[c].cause = "extract"
    /\ \E c \in Calls : result[c].err = "nil" /\ result[c].cause = "none"
    /\ \E c \in Calls : "Waiting" \in {hist[c][i] : i \in 1..Len(hist[c])}

\* C4: with a capacity of at least one, a parked call is admitted unless its
\* context is cancelled, and every call returns
C4_NoCallBlocksForever ==
    (poolCap >= 1) =>
        \A c \in Calls :
            /\ [](pc[c] = "Waiting" => <>(pc[c] = "Admitted" \/ ctxDone[c]))
            /\ <>(pc[c] \in Returned)

C4_Witness ==
    \E c \in Calls :
        /\ pc[c] = "Completed"
        /\ ~ctxDone[c]
        /\ "Waiting" \in {hist[c][i] : i \in 1..Len(hist[c])}

\* the state of the request in the terms of the admission state machine
SpecState(p) ==
    CASE p \in {"Start", "Waiting", "Woken"} -> "Waiting"
      [] p = "Storing" -> "Running"
      [] OTHER -> p

RECURSIVE Path(_)
Path(h) ==
    IF h = <<>> THEN <<>>
    ELSE LET rest == Path(Tail(h))
             st == SpecState(Head(h))
         IN IF rest # <<>> /\ Head(rest) = st THEN rest ELSE <<st>> \o rest

IsPrefix(a, b) == Len(a) <= Len(b) /\ a = SubSeq(b, 1, Len(a))

\* C5: a request goes Waiting, Admitted, Running, Completed, or from Waiting
\* to Cancelled; a call that holds a slot when its context is cancelled still
\* makes the model call and never returns the cancellation error
C5_StateMachine ==
    \A c \in Calls :
        /\ \/ IsPrefix(Path(hist[c]),
                       <<"Waiting", "Admitted", "Running", "Completed">>)
           \/ Path(hist[c]) = <<"Waiting", "Cancelled">>
        /\ cancelAt[c] \in Holding
              => /\ pc[c] \in Holding \cup {"Completed"}
                 /\ pc[c] = "Completed" => extractCalls[c] = 1
        /\ pc[c] = "Completed"
              => /\ extractCalls[c] = 1
                 /\ result[c].cause # "context"

C5_Witness ==
    \E c \in Calls :
        /\ cancelAt[c] = "Admitted"
        /\ pc[c] = "Completed"
        /\ "Storing" \in {hist[c][i] : i \in 1..Len(hist[c])}

\* C6: the capacity of the pool is the configured maxWorkers, and 5 when
\* maxWorkers is not positive, whichever constructor built the service
C6_DefaultCapacity ==
    poolCap = IF maxWorkers > 0 THEN maxWorkers ELSE DefaultWorkers

\* ------------------------------------------------------------------------
\* Properties of the parsing pipeline
\* ------------------------------------------------------------------------
\* the completion text as the model sent it
Completion == Wrap(wrap, base)

StageNames == [i \in 1..Len(tried) |-> tried[i].stage]

\* the outcome of a stage on the completion text
StageResult(name) ==
    CASE name = "strict" -> StrictDecode(Completion)
      [] name = "embedded" -> EmbeddedDecode(StripFences(Completion))
      [] name = "regex" ->
            LET inv == RecoverFields(StripFences(Completion))
            IN [ok |-> ~(inv.VendorName = "" /\ inv.InvoiceNumber = ""
                         /\ inv.TotalDue = 0 /\ inv.Items = <<>>),
                invoice |-> inv]

\* C7: the stages run in the order strict, embedded, regex; a stage runs only
\* after every earlier stage failed on the text; the call returns the Invoice
\* of the first stage that succeeds, and an error only after all three failed
C7_StageOrder ==
    respKind = "content" =>
        /\ IsPrefix(StageNames, <<"strict", "embedded", "regex">>)
        /\ \A i \in 1..Len(tried) :
              /\ i < Len(tried) => tried[i].status = "failed"
              /\ tried[i].status = "failed" => ~StageResult(tried[i].stage).ok
              /\ tried[i].status = "ok" => StageResult(tried[i].stage).ok
        /\ ppc = "done" =>
              /\ Len(tried) >= 1
              /\ tried[Len(tried)].status \in {"ok", "failed"}
              /\ tried[Len(tried)].status = "ok" =>
                    parsed = ParseOk(StageResult(StageNames[Len(tried)]).invoice)
              /\ tried[Len(tried)].status = "failed" =>
                    (Len(tried) = 3 /\ parsed.status = "error")
        /\ ppc # "done" => parsed = Pending

\* the regex stage returned its Invoice after both decodes failed
C7_Witness ==
    /\ ppc = "done"
    /\ Len(tried) = 3
    /\ parsed.status = "ok"
    /\ wrap = "brace_after"

\* T is strict JSON of the invoice schema
BaseIsStrictJSON ==
    /\ respKind = "content"
    /\ StrictDecode(base).ok
    /\ IsP(Significant(base)[1], "{")

\* C8 as stated: T, T in code fences and T surrounded by prose give the same
\* Invoice
C8_WrapInvariance ==
    (ppc = "done" /\ BaseIsStrictJSON /\ wrap \in Wrappers \cup {"plain"})
        => parsed = ParseOk(ParseContent(base).invoice)

\* no string of T contains a code-fence marker
NoFenceInside(t) ==
    \A i \in 1..Len(t) : t[i].k = "str" => Unfenced(t[i].v) = t[i].v

\* C8 amended: the same Invoice is returned for T, for T in code fences and
\* for T surrounded by prose that contains no brace, when no string of T
\* contains a code-fence marker
C8_WrapInvarianceAmended ==
    (/\ ppc = "done"
     /\ BaseIsStrictJSON
     /\ wrap \in {"plain", "fence", "fence_json", "prose"}
     /\ NoFenceInside(base))
        => parsed = ParseOk(ParseContent(base).invoice)

\* a fenced document with two line items came out of the embedded stage
C8_Witness ==
    /\ ppc = "done"
    /\ BaseIsStrictJSON
    /\ wrap = "fence_json"
    /\ StageNames = <<"strict", "embedded">>
    /\ parsed.status = "ok"
    /\ Len(parsed.invoice.Items) = 2

\* C9: no successful return carries an Invoice whose fields are all empty or
\* zero and whose item list is empty
C9_NoEmptySuccess ==
    (ppc = "done" /\ parsed.status = "ok") => parsed.invoice # NewInvoice

\* C10: the regex stage fails with the extraction error exactly when vendor
\* name and invoice number are empty, total_due is zero and no item was kept;
\* otherwise it returns the recovered Invoice
C10_RegexOutcome ==
    (ppc = "done" /\ Len(tried) = 3) =>
        /\ recovered = RecoverFields(StripFences(Completion))
        /\ parsed.status \in {"ok", "error"}
        /\ parsed.status = "error" <=>
              (/\ recovered.VendorName = ""
               /\ recovered.InvoiceNumber = ""
               /\ recovered.TotalDue = 0
               /\ recovered.Items = <<>>)
        /\ parsed.status = "error" => parsed.op = "extract_json_with_regex"
        /\ parsed.status = "ok" => parsed.invoice = recovered

\* a partially populated Invoice was returned by the regex stage
C10_Witness ==
    /\ ppc = "done"
    /\ Len(tried) = 3
    /\ parsed.status = "ok"
    /\ parsed.invoice.VendorName = ""
    /\ parsed.invoice.InvoiceNumber = ""
    /\ parsed.invoice.TotalDue = 0
    /\ Len(parsed.invoice.Items) = 1

\* ------------------------------------------------------------------------
\* What the model's output says, read off the JSON text T
\* ------------------------------------------------------------------------
\* the string the object starting at t[at] gives for key, "" when it has none
GivenString(t, at, key) ==
    LET ms == Members(t, at + 1)
        hits == {i \in 1..Len(ms) : ms[i].key = key /\ t[ms[i].at].k = "str"}
    IN IF hits = {} THEN "" ELSE t[ms[Max(hits)].at].v

\* per object of the items array of T, the string it gives for key
GivenItemStrings(T, key) ==
    LET t == Significant(T)
        ms == Members(t, 2)
        hits == {i \in 1..Len(ms) :
                    ms[i].key = "items" /\ IsP(t[ms[i].at], "[")}
    IN IF hits = {} THEN <<>>
       ELSE LET es == Elems(t, ms[Max(hits)].at + 1)
            IN [i \in 1..Len(es) |->
                   IF IsP(t[es[i]], "{") THEN GivenString(t, es[i], key)
                   ELSE ""]

\* T reaches one of the JSON decodes whole
DecodedWhole ==
    /\ ppc = "done"
    /\ BaseIsStrictJSON
    /\ wrap \in {"plain", "fence", "fence_json", "prose"}
    /\ NoFenceInside(base)

\* C11: an Invoice returned without a total_due in the text and with a
\* subtotal has total_due = subtotal + tax_amount - discount, whichever stage
\* produced it
C11_DerivedTotal ==
    (/\ ppc = "done"
     /\ parsed.status = "ok"
     /\ parsed.invoice.Subtotal # 0
     /\ \A i \in 1..Len(Completion) : Completion[i] # S("total_due"))
        => parsed.invoice.TotalDue =
              parsed.invoice.Subtotal + parsed.invoice.TaxAmount
                 - parsed.invoice.Discount

\* C12: every line item of a returned Invoice has a non-empty description, and
\* the kept items are the items of the text that have one, in the same order
C12_ItemsHaveDescription ==
    (ppc = "done" /\ parsed.status = "ok") =>
        /\ \A i \in 1..Len(parsed.invoice.Items) :
              parsed.invoice.Items[i].Description # ""
        /\ DecodedWhole =>
              [i \in 1..Len(parsed.invoice.Items) |->
                  parsed.invoice.Items[i].Description]
                 = SelectSeq(GivenItemStrings(base, "description"),
                             LAMBDA d : d # "")

\* C13: a non-empty category the model gave a line item is the category of
\* that line item of the returned Invoice and of the receipt item built from
\* it
C13_CategoryVerbatim ==
    (DecodedWhole /\ parsed.status = "ok") =>
        LET given == GivenItemStrings(base, "category")
        IN \A i \in 1..Len(given) :
              given[i] # "" =>
                 /\ i <= Len(parsed.invoice.Items)
                 /\ parsed.invoice.Items[i].Category = given[i]
                 /\ ToReceipt(parsed.invoice).Items[i].Category = given[i]

\* ------------------------------------------------------------------------
\* Properties of the category normalization
\* ------------------------------------------------------------------------
\* entry k of the table has a keyword that occurs in d, ignoring case
KeywordOccurs(k, d) ==
    LET kw == categoryKeywords[k].keyword
    IN \E i \in 1..Len(d) :
          /\ i + Len(kw) - 1 <= Len(d)
          /\ \A j \in 1..Len(kw) : Lower(d[i + j - 1]) = kw[j]

\* C14: a line item without a category gets the category of the first table
\* entry whose keyword occurs in its description, ignoring case, and Other
\* when no keyword occurs; "Grab to airport" gets Transport
C14_CategoryFallback ==
    (cpc = "normalized" /\ rawItem.Category = "") =>
        LET d == rawItem.Description
            entries == 1..Len(categoryKeywords)
        IN /\ lineItem.Description = d
           /\ (\E k \in entries : KeywordOccurs(k, d)) =>
                 \E k \in entries :
                    /\ KeywordOccurs(k, d)
                    /\ \A j \in 1..(k - 1) : ~KeywordOccurs(j, d)
                    /\ lineItem.Category = categoryKeywords[k].category
           /\ (\A k \in entries : ~KeywordOccurs(k, d)) =>
                 lineItem.Category = "Other"
           /\ d = GrabToAirport => lineItem.Category = "Transport"

\* an item whose description has keywords of two categories got the first
C14_Witness ==
    /\ cpc = "normalized"
    /\ rawItem.Category = ""
    /\ rawItem.Description =
          <<"T", "A", "X", "I", " ", "H", "o", "t", "e", "l">>
    /\ lineItem.Category = "Transport"

\* ------------------------------------------------------------------------
\* Properties of the parsing pipeline: what crosses its boundary
\* ------------------------------------------------------------------------
\* C15: for a response with a choice, the call returns either a populated
\* Invoice or the extraction error raised at the end of regex recovery after
\* both decodes failed; a decode failure of a stage is never what it returns
C15_StageFailuresStayInside ==
    (ppc = "done" /\ respKind = "content") =>
        \/ /\ parsed.status = "ok"
           /\ parsed.invoice # NewInvoice
        \/ /\ parsed.status = "error"
           /\ parsed.op = "extract_json_with_regex"
           /\ StageNames = <<"strict", "embedded", "regex">>
           /\ \A i \in 1..3 : tried[i].status = "failed"

\* ------------------------------------------------------------------------
\* Properties of a scan request
\* ------------------------------------------------------------------------
\* what the caller reads off the Ops of the error ScanReceipt returned
ErrorKind(err) ==
    IF err = NoErr THEN "none"
    ELSE IF err.ops[1] = "acquire_worker" THEN "cancelled"
    ELSE IF err.ops = <<"extract_receipt_data", "extract_json_with_regex">>
       THEN "extraction"
    ELSE "collaborator"

Configured == config.SupabaseURL /\ config.SupabaseAPIKey /\ config.APIKey

\* what happened to the call, told from what its environment did
Occurred ==
    IF ~admitted THEN "cancelled"
    ELSE IF ~Configured THEN "collaborator"
    ELSE IF uploadReply \notin {"ok", "created"} THEN "collaborator"
    ELSE IF modelReply # "ok" THEN "collaborator"
    ELSE IF respBody.kind # "content" THEN "collaborator"
    ELSE IF ~ParseContent(respBody.text).ok THEN "extraction"
    ELSE IF storeReply # "ok" THEN "collaborator"
    ELSE "none"

\* C16: a cancellation while waiting for a slot, a failed extraction and a
\* failure of storage, model API or configuration are returned as errors the
\* caller can tell apart, and each is reported as what it was
C16_ErrorKindsDistinct ==
    spc = "respond" =>
        /\ ErrorKind(scanErr) = Occurred
        /\ ErrorKind(scanErr) = "cancelled" => (scanCtx /\ ~admitted)

\* a parked call was cancelled and returned the acquire_worker error
C16_Witness ==
    /\ spc = "respond"
    /\ poolFull
    /\ scanCtx
    /\ ~admitted
    /\ scanErr.ops = <<"acquire_worker">>

\* the service was called for the request
ServiceCalled == spc = "done" /\ (admitted \/ scanErr # NoErr)

\* C17: a failed extraction is answered with 422, and a request with an image
\* to a configured service is answered with 200 or 422 only
C17_ExtractionFailureIs422 ==
    (ServiceCalled /\ hasImage) =>
        /\ ErrorKind(scanErr) = "extraction" => httpStatus = 422
        /\ Configured => httpStatus \in {200, 422}

\* C18: the upload and the model request are each sent at most once; after a
\* network error or a non-success status of either the call has returned the
\* error tagged with the failed operation, whatever MaxRetries is
C18_NoRetry ==
    /\ uploads <= 1
    /\ requests <= 1
    /\ uploadReply \in {"network", "status"} =>
          /\ spc \in {"respond", "done"}
          /\ uploads = 1
          /\ requests = 0
          /\ scanErr.ops =
                <<"extract_receipt_data", "upload_image",
                  IF uploadReply = "network" THEN "send_upload_request"
                  ELSE "check_upload_response">>
    /\ modelReply \in {"network", "status"} =>
          /\ spc \in {"respond", "done"}
          /\ uploads = 1
          /\ requests = 1
          /\ scanErr.ops =
                <<"extract_receipt_data",
                  IF modelReply = "network" THEN "send_extract_request"
                  ELSE "check_api_response">>

\* with MaxRetries 3 a failed upload ended the call after one attempt
C18_Witness ==
    /\ spc = "done"
    /\ config.MaxRetries = DefaultMaxRetries
    /\ uploadReply = "network"
    /\ uploads = 1
    /\ httpStatus = 500

\* ------------------------------------------------------------------------
\* What the text handed to the regex stage says, read off its tokens
\* ------------------------------------------------------------------------
\* the regex stage worked on content
RegexRan == ppc \in {"check", "done"} /\ Len(tried) = 3

\* the places of the text where `"key": ` is written
Written(t, key) ==
    {i \in 1..(Len(t) - 3) :
        t[i] = S(key) /\ t[i + 1] = P(":") /\ t[i + 2] = WS}

\* the first non-empty string written for key, "" when there is none
TextString(t, key) ==
    LET at == {i \in Written(t, key) : t[i + 3].k = "str" /\ t[i + 3].v # ""}
    IN IF at = {} THEN "" ELSE t[Min(at) + 3].v

\* the first unsigned number written for key, 0 when there is none
TextNumber(t, key) ==
    LET at == {i \in Written(t, key) : t[i + 3].k = "num" /\ t[i + 3].v >= 0}
    IN IF at = {} THEN 0 ELSE t[Min(at) + 3].v

\* the first date written for key when it is a YYYY-MM-DD date, else zero
TextDate(t, key) ==
    LET str == TextString(t, key)
    IN IF TimeParse(str).err THEN ZeroDate ELSE TimeParse(str).val

\* C19: in the regex stage every scalar field is recovered from its own
\* pattern: a field whose pattern does not match or whose value fails to
\* parse is left empty or zero, and every other field is still set; a cut
\* text with "vendor_name": "Acme Corp" and "total_due": 79.18 succeeds with
\* exactly these two values
C19_FieldsIndependent ==
    RegexRan =>
        /\ recovered.VendorName = TextString(content, "vendor_name")
        /\ recovered.InvoiceNumber = TextString(content, "invoice_number")
        /\ recovered.InvoiceDate = TextDate(content, "invoice_date")
        /\ recovered.DueDate = TextDate(content, "due_date")
        /\ recovered.Subtotal = TextNumber(content, "subtotal")
        /\ recovered.TaxRatePercent = TextNumber(content, "tax_rate_percent")
        /\ recovered.TaxAmount = TextNumber(content, "tax_amount")
        /\ recovered.Discount = TextNumber(content, "discount")
        /\ recovered.TotalDue = TextNumber(content, "total_due")
        /\ (/\ ppc = "done"
            /\ wrap \in {"cut", "unbraced"}
            /\ base = Object(<<Member("vendor_name", <<S("Acme Corp")>>),
                               Member("total_due", <<N(7918)>>)>>))
              => parsed = ParseOk([NewInvoice EXCEPT
                                      !.VendorName = "Acme Corp",
                                      !.TotalDue = 7918])

\* a text with an invoice date that is no YYYY-MM-DD date went through the
\* regex stage: the date stayed zero and the fields after it were set
C19_Witness ==
    /\ ppc = "done"
    /\ Len(tried) = 3
    /\ TextString(content, "invoice_date") = "15/01/2024"
    /\ parsed.status = "ok"
    /\ parsed.invoice.InvoiceDate = ZeroDate
    /\ parsed.invoice.InvoiceNumber = "INV-1"
    /\ parsed.invoice.DueDate = <<2024, 2, 14>>
    /\ parsed.invoice.TaxRatePercent = 1000
    /\ parsed.invoice.Discount = 100

\* the items the objects of the items array of T describe, in the order of
\* the text, without those that have no description
DescribedItems(T) ==
    SelectSeq(FromDTO(Unmarshal(T).val).Items,
              LAMBDA it : it.Description # "")

\* C20: the regex stage keeps one item per object of the items array that
\* has a description, with its description, quantity, unit_price, total and
\* the strings of its own details list, in the order of the text, also when
\* items contain details lists
C20_ItemsRecovered ==
    (/\ RegexRan
     /\ BaseIsStrictJSON
     /\ wrap \in {"brace_before", "brace_after", "cut", "unbraced"})
        => recovered.Items = DescribedItems(base)

\* ------------------------------------------------------------------------
\* Properties of the receipts API
\* ------------------------------------------------------------------------
\* the stored receipts that pass the filter
Matching(filter) ==
    {id \in DOMAIN receiptCache : Matches(receiptCache[id], filter)}

\* a DELETE that found no receipt under its ID: the delete did not succeed
\* and the ID is not stored (a failed delete changes nothing)
DeletedUnstored ==
    /\ answer.op = "delete_receipt"
    /\ answer.id # ""
    /\ answer.status # 204
    /\ answer.id \notin DOMAIN receiptCache

\* C21 as stated: after DeleteReceipt(id) answered 204 every
\* GetReceiptByID(id) answers 404 until the ID is created again, and deleting
\* an ID that is not stored answers 404
C21_DeletedStaysGone ==
    /\ (answer.op = "get_receipt" /\ answer.id \in deleted)
          => answer.status = 404
    /\ DeletedUnstored => answer.status = 404

\* C21, amended: after DeleteReceipt(id) answered 204 no GetReceiptByID(id)
\* returns a receipt until the ID is created again, and one whose context
\* is not cancelled answers 404; deleting an ID that is not stored answers
\* 404 when the context is not cancelled; with a cancelled context both
\* answer 500
C21_DeletedStaysGoneAmended ==
    /\ (answer.op = "get_receipt" /\ answer.id \in deleted)
          => /\ answer.id \notin DOMAIN receiptCache
             /\ answer.status = IF answer.done THEN 500 ELSE 404
    /\ DeletedUnstored => answer.status = IF answer.done THEN 500 ELSE 404

\* a deleted receipt was asked for while another receipt is stored
C21_Witness ==
    /\ answer.op = "get_receipt"
    /\ answer.id \in deleted
    /\ ~answer.done
    /\ answer.status = 404
    /\ DOMAIN receiptCache # {}

\* C22: every ListReceipts result has a limit within 1..100, a current page
\* of at least 1, totalItems equal to the number of stored receipts that
\* match the filter, totalPages = ceil(totalItems / limit) and at most
\* limit receipts, all stored and matching; without filter and with a stored
\* receipt totalItems and totalPages are at least 1
C22_Pagination ==
    (answer.op = "list_receipts" /\ answer.status = 200) =>
        LET pg == answer.pagination
        IN /\ pg.Limit \in 1..100
           /\ pg.CurrentPage >= 1
           /\ pg.TotalItems = Cardinality(Matching(answer.filter))
           /\ pg.TotalPages * pg.Limit >= pg.TotalItems
           /\ (pg.TotalPages - 1) * pg.Limit < pg.TotalItems
           /\ Len(answer.data) <= pg.Limit
           /\ \A i \in 1..Len(answer.data) :
                 /\ answer.data[i].ID \in Matching(answer.filter)
                 /\ answer.data[i] = receiptCache[answer.data[i].ID]
                 /\ \A j \in 1..Len(answer.data) :
                       answer.data[i] = answer.data[j] => i = j
           /\ (/\ DOMAIN receiptCache # {}
               /\ answer.filter.Merchant = ""
               /\ answer.filter.StartDate = NoDate
               /\ answer.filter.EndDate = NoDate)
                 => (pg.TotalItems >= 1 /\ pg.TotalPages >= 1)

\* one page of one receipt out of two stored receipts was returned
C22_Witness ==
    /\ answer.op = "list_receipts"
    /\ answer.status = 200
    /\ answer.pagination.Limit = 1
    /\ answer.pagination.TotalItems = 2
    /\ answer.pagination.TotalPages = 2
    /\ answer.pagination.CurrentPage = 2
    /\ Len(answer.data) = 1

\* C30: a receipts operation that returns an error, for an ID that is not
\* stored or for a cancelled context, leaves the stored receipts as they
\* were, and the read operations never change them
C30_ErrorsLeaveStoreUnchanged ==
    [][(\/ answer'.err # "none"
        \/ answer'.op \in {"get_receipt", "list_receipts",
                            "get_receipt_items"})
          => receiptCache' = receiptCache]_vars

\* an update of an ID that is not stored was refused while a receipt is
\* stored
C30_Witness ==
    /\ answer.op = "update_receipt"
    /\ answer.err = "not found"
    /\ answer.id \notin DOMAIN receiptCache
    /\ DOMAIN receiptCache # {}

\* ------------------------------------------------------------------------
\* The embedded-JSON stage
\* ------------------------------------------------------------------------
\* the tokens of t that are neither whitespace nor part of a fence marker
\* (the marker and the word json written right after it)
Unmarked(t) ==
    LET marker(i) ==
            \/ t[i].k \in {"ws", "fence"}
            \/ (i > 1 /\ t[i - 1].k = "fence" /\ t[i] = W("json"))
        rest == KeepTokens(t, LAMBDA i : ~marker(i))
    IN [n \in 1..Len(rest) |->
           IF rest[n].k = "str" THEN S(Unfenced(rest[n].v)) ELSE rest[n]]

\* the inclusive span from the first { to the last } of t, <<>> without one
BraceSpan(t) ==
    LET opens == {i \in 1..Len(t) : t[i] = P("{")}
        closes == {i \in 1..Len(t) : t[i] = P("}")}
    IN IF opens = {} \/ closes = {} THEN <<>>
       ELSE IF Max(closes) < Min(opens) THEN <<>>
       ELSE SubSeq(t, Min(opens), Max(closes))

\* C23: the embedded stage removes every code-fence marker from the text,
\* takes the span from the first { to the last } of the rest as its one JSON
\* candidate and returns the Invoice decoded from it; without such a span,
\* or when the span does not decode, it returns no Invoice and the regex
\* stage runs on the text without the fence markers
C23_EmbeddedStage ==
    Len(tried) >= 2 =>
        /\ \A i \in 1..Len(content) : content[i].k # "fence"
        /\ SelectSeq(content, LAMBDA x : x.k # "ws") = Unmarked(Completion)
        /\ tried[2].stage = "embedded"
        /\ tried[2].status = "ok" <=>
              (BraceSpan(content) # <<>> /\ StrictDecode(BraceSpan(content)).ok)
        /\ tried[2].status = "ok" =>
              /\ ppc = "done"
              /\ parsed = ParseOk(StrictDecode(BraceSpan(content)).invoice)
        /\ tried[2].status = "failed" =>
              /\ ppc \in {"regex", "check", "done"}
              /\ Len(tried) = 3 => recovered = RecoverFields(content)
              /\ ppc # "done" => parsed = Pending

\* a fenced document was decoded by the embedded stage
C23_Witness ==
    /\ ppc = "done"
    /\ Len(tried) = 2
    /\ tried[2].status = "ok"
    /\ wrap \in {"fence", "fence_json"}
    /\ parsed.invoice.VendorName = "Acme Corp"
    /\ Len(parsed.invoice.Items) = 2

\* ------------------------------------------------------------------------
\* The order of the steps of one extraction call
\* ------------------------------------------------------------------------
Ran(step) == \E i \in 1..Len(steps) : steps[i] = step

\* C24: the steps of one extraction call run in the order configuration
\* check, image upload, model request, response parsing; nothing is sent
\* when a credential or URL is missing, the model is requested only after
\* the upload succeeded and with the URL it returned, and the response is
\* parsed only after a 200 answer of the model API
C24_StepOrder ==
    /\ IsPrefix(steps, <<"config", "upload", "request", "parse">>)
    /\ ~Configured => (uploads = 0 /\ requests = 0 /\ Len(steps) <= 1)
    /\ uploads > 0 => Ran("upload")
    /\ requests > 0 <=> Ran("request")
    /\ Ran("request") =>
          /\ uploadReply \in {"ok", "created"}
          /\ uploads = 1
          /\ imageURL \in {PublicURL(f) : f \in Filenames}
          /\ sentURL = imageURL
    /\ ~Ran("request") => sentURL = ""
    /\ Ran("parse") => (modelReply = "ok" /\ respBody.kind # "none")
    /\ (invoiceData # NewInvoice \/ storeReply # "none") => Ran("parse")

\* the four steps ran and the call returned the stored Receipt
C24_Witness ==
    /\ spc = "done"
    /\ steps = <<"config", "upload", "request", "parse">>
    /\ sentURL = "public/invoice_2.png"
    /\ httpStatus = 200

\* ------------------------------------------------------------------------
\* Properties of ProcessInvoiceBatch, ProcessInvoice and Shutdown
\* ------------------------------------------------------------------------
\* the calls that hold a slot of the worker queue
PastGate == {i \in Requests : call[i].pc \in PastAcquisition}

\* what the batch keeps for request i, written out
Outcome(i) ==
    IF call[i].err = "nil"
       THEN call[i].resp
       ELSE [nil |-> FALSE, Error |-> "Failed to process invoice",
             Invoice |-> NoInvoice]

\* C25: ProcessInvoiceBatch returns only after every request finished, with
\* a nil error and one non-nil response per request, responses[i] being the
\* outcome of requests[i] (an error of the request, the cancellation while
\* waiting included, is the Error text of its response); never more than
\* maxWorkers requests are past the slot acquisition
C25_BatchOutcome ==
    /\ batchResult.returned =>
          /\ batchResult.err = "nil"
          /\ wg = 0
          /\ \A i \in Requests :
                /\ call[i].pc = "done"
                /\ ~responses[i].nil
                /\ responses[i] = Outcome(i)
                /\ responses[i].Invoice.File \in {0, i}
                /\ call[i].err # "nil"
                      => (responses[i].Error = "Failed to process invoice"
                          /\ responses[i].Invoice = NoInvoice)
                /\ call[i].failed
                      => responses[i].Error = "AI extraction failed"
                /\ (call[i].err = "nil" /\ ~call[i].failed)
                      => (responses[i].Error = ""
                          /\ responses[i].Invoice = call[i].extracted
                          /\ responses[i].Invoice.File = i)
    /\ Cardinality(PastGate) <= queueCap
    /\ Cardinality(PastGate) <= NewAIProcessorService(maxWorkers)

\* a batch returned in which one request waited for a slot and was
\* cancelled there, and another one yielded its invoice
C25_Witness ==
    /\ batchResult.returned
    /\ \E i, j \in Requests :
          /\ call[i].waited
          /\ call[i].err \notin {"nil", "pending"}
          /\ responses[i].Error = "Failed to process invoice"
          /\ responses[j].Invoice.File = j

\* ProcessInvoice of request i has its return values
HasReturned(i) == call[i].pc \in {"release", "returned", "done"}

\* C26: AIProcessorService.ProcessInvoice returns a Go error only for a
\* cancellation while waiting for a slot; a failed extraction returns a
\* response with Error set and a nil Invoice, a nil error, and stores no
\* invoice; failing to store the image or the invoice never changes the
\* response; the invoice is handed to the repository only when a repository
\* is set and the invoice number is not empty
C26_ProcessInvoiceErrors ==
    svc = "AIProcessorService" =>
        \A i \in Requests :
            /\ call[i].err \notin {"nil", "pending"}
                  => /\ call[i].err = "acquire_worker: context canceled"
                     /\ batchCtx
                     /\ ~call[i].acquired
                     /\ call[i].resp = NilResponse
                     /\ call[i].image = "none"
                     /\ call[i].stored = "none"
            /\ call[i].failed
                  => /\ call[i].err = "nil"
                     /\ ~call[i].resp.nil
                     /\ call[i].resp.Error # ""
                     /\ call[i].resp.Invoice = NoInvoice
                     /\ call[i].stored = "none"
            /\ call[i].stored # "none"
                  => /\ repository
                     /\ call[i].extracted.InvoiceNumber # ""
                     /\ call[i].extracted.File = i
            /\ call[i].image # "none" => repository
            /\ (HasReturned(i) /\ call[i].acquired /\ ~call[i].failed)
                  => /\ call[i].err = "nil"
                     /\ call[i].resp = [nil |-> FALSE, Error |-> "",
                                        Invoice |-> call[i].extracted]

\* one call returned its invoice although neither the image nor the invoice
\* could be stored, another one failed to extract, a third kind of call had
\* an invoice without number that was not handed to the repository
C26_Witness ==
    /\ svc = "AIProcessorService"
    /\ repository
    /\ \E i, j \in Requests :
          /\ call[i].pc = "done"
          /\ call[i].image = "error"
          /\ call[i].stored = "error"
          /\ call[i].resp.Invoice.InvoiceNumber # ""
          /\ call[j].pc = "done"
          /\ \/ call[j].failed
             \/ (call[j].extracted = Invoice(j, "") /\ call[j].stored = "none")

\* C27: in no interleaving of Shutdown with ProcessInvoice calls is a send
\* attempted on the closed worker queue, and the occupied slots stay within
\* 0..maxWorkers
C27_GracefulShutdown ==
    /\ aiPanic # "send on closed channel"
    /\ workerQueue \in 0..queueCap

\* ------------------------------------------------------------------------
\* Properties of the OCR worker pool
\* ------------------------------------------------------------------------
\* the tasks a worker took from the queue and did not answer yet
HeldTasks == {ocrWorkers[w].task : w \in Workers} \ {0}

QueuedTasks == {processingQueue[k] : k \in 1..Len(processingQueue)}

\* the worker holding a task of a cancelled context answers it with
\* 'request canceled' and runs no OCR for it
CancelledIsNotRun ==
    \A w \in Workers :
        (/\ ocrWorkers[w].pc = "check"
         /\ ocrTasks[ocrWorkers[w].task].ctx
         /\ ocrWorkers'[w] # ocrWorkers[w])
            => /\ ocrWorkers'[w].pc = "range"
               /\ ocrTasks'[ocrWorkers[w].task].sent = "request canceled"
               /\ ocrTasks'[ocrWorkers[w].task].ocr = 0

\* every accepted task is in the queue, with a worker, or answered once; the
\* response channel has room for the answer of a worker that holds the task
ExactlyOneResponse ==
    /\ \A t \in Tasks :
          /\ ocrTasks[t].delivered <= 1
          /\ ocrTasks[t].delivered = 1
                <=> (/\ ocrTasks[t].accepted
                     /\ t \notin QueuedTasks
                     /\ t \notin HeldTasks)
          /\ ocrTasks[t].accepted
                <=> ocrTasks[t].pc \in {"await", "returned"}
                    /\ ocrTasks[t].err # "empty file data"
                    /\ (ocrTasks[t].delivered = 1 \/ t \in QueuedTasks
                        \/ t \in HeldTasks)
          /\ ocrTasks[t].ocr <= 1
          /\ ocrTasks[t].delivered = 1
                => (ocrTasks[t].sent = "request canceled"
                       <=> ocrTasks[t].ocr = 0)
          /\ ocrTasks[t].err = "nil" => ocrTasks[t].resp = ocrTasks[t].sent
    /\ \A w \in Workers :
          ocrWorkers[w].pc \in {"check", "ocr"}
             => /\ ocrWorkers[w].task \in Tasks
                /\ ocrTasks[ocrWorkers[w].task].chan = <<>>
                /\ ocrTasks[ocrWorkers[w].task].delivered = 0

\* C28: every task accepted into the queue receives exactly one response on
\* its response channel, the worker never blocks delivering it even when the
\* caller already returned on a cancelled context, and a task whose context
\* is cancelled when it is dequeued is answered 'request canceled' without
\* running OCR; the response arrives once the workers are scheduled
C28_OneResponsePerTask ==
    /\ []ExactlyOneResponse
    /\ [][CancelledIsNotRun]_vars
    /\ \A t \in Tasks :
          ocrTasks[t].accepted ~> (ocrTasks[t].delivered = 1)

\* two callers returned on their cancelled contexts; the worker answered one
\* of the tasks 'request canceled' and ran the OCR of the other one, and
\* both answers lie in the response channels
C28_Witness ==
    \E t, u \in Tasks :
        /\ ocrTasks[t].pc = "returned"
        /\ ocrTasks[t].err = "context canceled"
        /\ ocrTasks[t].chan = <<"request canceled">>
        /\ ocrTasks[u].pc = "returned"
        /\ ocrTasks[u].err = "context canceled"
        /\ ocrTasks[u].chan = <<"invoice">>

\* Shutdown returned: every worker exited, the queue is drained and every
\* accepted task was answered
ShutdownDrained ==
    ocrShutdown = "returned"
       => /\ \A w \in Workers : ocrWorkers[w].pc = "exited"
          /\ Cardinality(Workers) = NewOCRService(maxWorkers)
          /\ processingQueue = <<>>
          /\ \A t \in Tasks : ocrTasks[t].accepted
                                 => ocrTasks[t].delivered = 1

\* C29: Shutdown returns only after all maxWorkers workers exited, and by
\* then every task accepted before Shutdown got its response; as every OCR
\* run terminates, Shutdown terminates
C29_ShutdownDrains ==
    /\ []ShutdownDrained
    /\ (ocrShutdown = "wait") ~> (ocrShutdown = "returned")

\* Shutdown returned after a task that was still unanswered when the queue
\* was closed got its response
C29_Witness ==
    /\ ocrShutdown = "returned"
    /\ \E t \in Tasks : ocrTasks[t].atClose /\ ocrTasks[t].delivered = 1

====
